---------------------------- MODULE Spec2Model ----------------------------
(***************************************************************************)
(* Model of ngx-i18nsupport-lib's translation units (XLIFF 1.2 and         *)
(* XLIFF 2.0) and of the normalized-message parser exercised by the XMB    *)
(* message-parser test suite.                                              *)
(*                                                                         *)
(* Two state machines live in this module:                                 *)
(*   SpecParser  the message parser, driven the way the test suite drives  *)
(*               it (parsedMessageFor, asNativeString,                     *)
(*               parsedMessageFromXML, asDisplayString);                   *)
(*   Spec        one translation unit of dialect A (XLIFF 1.2) or          *)
(*               B (XLIFF 2.0) and the operations called on it.            *)
(***************************************************************************)
EXTENDS Integers, Sequences, FiniteSets, TLC

VARIABLES
    \* ---- message parser harness ----
    pc,                \* which helper calls have been made so far
    normalizedString,  \* the display string handed to parsedMessageFor
    xmlContent,        \* the native fragment handed to parsedMessageFromXML
    parsedMessage,     \* parts of the message returned by the last parse
    nativeString,      \* result of the last asNativeString
    displayString,     \* result of the last asDisplayString
    errorMessage,      \* message of the error thrown by the last parse, "" if none
    \* ---- translation unit ----
    unit,              \* the XML fragment the unit wraps
    lastOp,            \* the last operation called on the unit, with its argument
    returned,          \* what that operation returned, "" if nothing
    thrown,            \* the error that operation raised, "" if it returned
    id,                \* the unit's id
    translationMessagesFile,  \* configuration of the file that owns the unit
    clone              \* the unit cloneWithSourceAsTarget returned, if any

parserVars == <<pc, normalizedString, xmlContent, parsedMessage, nativeString,
                displayString, errorMessage>>
ownerVars == <<id, translationMessagesFile, clone>>
unitVars == <<unit, lastOp, returned, thrown, id, translationMessagesFile, clone>>
vars == <<pc, normalizedString, xmlContent, parsedMessage, nativeString,
          displayString, errorMessage, unit, lastOp, returned, thrown,
          id, translationMessagesFile, clone>>

---------------------------------------------------------------------------
(* Bounds of the model *)

\* longest generated display string, in constructs (text, marker, tag)
MaxParts == 4
\* largest placeholder / ICU reference index in generated inputs
MaxIndex == 1
\* longest generated native fragment, in child nodes
MaxNodes == 3
\* longest list of notes handed to setNotes
MaxNotes == 2
\* longest list of source references handed to setSourceReferences
MaxRefs == 2
\* most calls made on the parser and its messages for one input
MaxCalls == 4

---------------------------------------------------------------------------
(* Strings *)

LowerCaseLetters == "abcdefghijklmnopqrstuvwxyz"
UpperCaseLetters == "ABCDEFGHIJKLMNOPQRSTUVWXYZ"
DecimalDigits == "0123456789"

CharAt(s, i) == SubSeq(s, i, i)

StartsWith(s, prefix) ==
    /\ Len(s) >= Len(prefix)
    /\ SubSeq(s, 1, Len(prefix)) = prefix

EndsWith(s, suffix) ==
    /\ Len(s) >= Len(suffix)
    /\ SubSeq(s, Len(s) - Len(suffix) + 1, Len(s)) = suffix

\* s without its first n characters
Drop(s, n) == SubSeq(s, n + 1, Len(s))

\* first position >= from at which pat occurs in s, 0 if there is none
RECURSIVE IndexOf(_, _, _)
IndexOf(s, pat, from) ==
    IF from + Len(pat) - 1 > Len(s) THEN 0
    ELSE IF SubSeq(s, from, from + Len(pat) - 1) = pat THEN from
    ELSE IndexOf(s, pat, from + 1)

IsDigit(c) == IndexOf(DecimalDigits, c, 1) > 0

RECURSIVE IsDigits(_)
IsDigits(s) ==
    IF Len(s) = 0 THEN FALSE
    ELSE IF Len(s) = 1 THEN IsDigit(s)
    ELSE IsDigit(CharAt(s, 1)) /\ IsDigits(Drop(s, 1))

\* the number Number.parseInt gives a string that does not start with a
\* digit; no line number or index is negative, so -1 stands for it
NaN == -1

\* Number.parseInt(s, 10): the decimal digits s starts with
RECURSIVE ParseIntFrom(_, _)
ParseIntFrom(s, acc) ==
    IF Len(s) = 0 \/ ~IsDigit(CharAt(s, 1)) THEN acc
    ELSE ParseIntFrom(Drop(s, 1),
                      10 * acc + (IndexOf(DecimalDigits, CharAt(s, 1), 1) - 1))

ParseInt(s) ==
    IF Len(s) = 0 \/ ~IsDigit(CharAt(s, 1)) THEN NaN ELSE ParseIntFrom(s, 0)

RECURSIVE toUpperCase(_)
toUpperCase(s) ==
    IF Len(s) = 0 THEN ""
    ELSE LET c == CharAt(s, 1)
             k == IndexOf(LowerCaseLetters, c, 1)
         IN (IF k > 0 THEN CharAt(UpperCaseLetters, k) ELSE c)
                \o toUpperCase(Drop(s, 1))

RECURSIVE toLowerCase(_)
toLowerCase(s) ==
    IF Len(s) = 0 THEN ""
    ELSE LET c == CharAt(s, 1)
             k == IndexOf(UpperCaseLetters, c, 1)
         IN (IF k > 0 THEN CharAt(LowerCaseLetters, k) ELSE c)
                \o toLowerCase(Drop(s, 1))

---------------------------------------------------------------------------
(* Normalized message: an ordered sequence of parts *)

\* every part has the same three fields; a field a kind does not use holds
\* "" or 0
Part(type, value, index) == [type |-> type, value |-> value, index |-> index]

TextPart(text) == Part("TEXT", text, 0)
PlaceholderPart(index) == Part("PLACEHOLDER", "", index)
StartTagPart(tagName) == Part("START_TAG", tagName, 0)
EndTagPart(tagName) == Part("END_TAG", tagName, 0)
EmptyTagPart(tagName) == Part("EMPTY_TAG", tagName, 0)
ICUMessageRefPart(index) == Part("ICU_MESSAGE_REF", "", index)

\* tags that have no end tag
EmptyTags == {"br"}

isEmptyTag(tagName) == tagName \in EmptyTags

\* a display form that writes an empty tag as a self-closing element
partAsDisplayStringSelfClosing(part) ==
    CASE part.type = "TEXT" -> part.value
      [] part.type = "PLACEHOLDER" -> "{{" \o ToString(part.index) \o "}}"
      [] part.type = "START_TAG" -> "<" \o part.value \o ">"
      [] part.type = "END_TAG" -> "</" \o part.value \o ">"
      [] part.type = "EMPTY_TAG" -> "<" \o part.value \o "/>"
      [] part.type = "ICU_MESSAGE_REF" ->
             "<ICU-Message-Ref_" \o ToString(part.index) \o "/>"

\* display form of one part
partAsDisplayString(part) ==
    CASE part.type = "TEXT" -> part.value
      [] part.type = "PLACEHOLDER" -> "{{" \o ToString(part.index) \o "}}"
      [] part.type = "START_TAG" -> "<" \o part.value \o ">"
      [] part.type = "END_TAG" -> "</" \o part.value \o ">"
      [] part.type = "EMPTY_TAG" -> "<" \o part.value \o ">"
      [] part.type = "ICU_MESSAGE_REF" ->
             "<ICU-Message-Ref_" \o ToString(part.index) \o "/>"

RECURSIVE asDisplayString(_)
asDisplayString(parts) ==
    IF parts = <<>> THEN ""
    ELSE partAsDisplayString(Head(parts)) \o asDisplayString(Tail(parts))

\* outcome of a parse: the message, or the error thrown
Parsed(parts) == [ok |-> TRUE, parts |-> parts, error |-> ""]
ParseFailed(message) == [ok |-> FALSE, parts |-> <<>>, error |-> message]

\* a check of the end tag that only asks for some open tag
closesOpenTagOfAnyName(openTags, tagName) == openTags # <<>>

\* whether an end tag closes the tag opened last and not yet closed
closesOpenTag(openTags, tagName) ==
    openTags # <<>> /\ openTags[Len(openTags)] = tagName

\* an end of input that accepts tags left open
endOfMessageAcceptingOpenTags(parts, openTags) == Parsed(parts)

\* the end of the input: a tag still open is an error
endOfMessage(parts, openTags) ==
    IF openTags # <<>>
    THEN ParseFailed("missing close tag " \o openTags[Len(openTags)])
    ELSE Parsed(parts)

\* the message with pending text (if any) added as a text part
FlushText(parts, text) ==
    IF text = "" THEN parts ELSE Append(parts, TextPart(text))

\* the token that starts at position i of s, which holds "<": its part and
\* the position after it; nothing when no ">" follows
TagTokenAt(s, i) ==
    LET j == IndexOf(s, ">", i + 1)
        inner == SubSeq(s, i + 1, j - 1)
    IN IF j = 0 \/ j = i + 1 THEN [found |-> FALSE, part |-> TextPart(""), next |-> i]
       ELSE IF StartsWith(inner, "/") /\ Len(inner) > 1
            THEN [found |-> TRUE, part |-> EndTagPart(Drop(inner, 1)), next |-> j + 1]
       ELSE IF StartsWith(inner, "ICU-Message-Ref_") /\ EndsWith(inner, "/")
               /\ IsDigits(SubSeq(inner, 17, Len(inner) - 1))
            THEN [found |-> TRUE,
                  part |-> ICUMessageRefPart(ParseInt(SubSeq(inner, 17, Len(inner) - 1))),
                  next |-> j + 1]
       ELSE IF isEmptyTag(inner)
            THEN [found |-> TRUE, part |-> EmptyTagPart(inner), next |-> j + 1]
       ELSE [found |-> TRUE, part |-> StartTagPart(inner), next |-> j + 1]

\* the placeholder that starts at position i of s, which holds "{{"
PlaceholderTokenAt(s, i) ==
    LET j == IndexOf(s, "}}", i + 2)
        inner == SubSeq(s, i + 2, j - 1)
    IN IF j = 0 \/ ~IsDigits(inner)
       THEN [found |-> FALSE, part |-> TextPart(""), next |-> i]
       ELSE [found |-> TRUE, part |-> PlaceholderPart(ParseInt(inner)), next |-> j + 2]

\* scan s from position i; parts and text are what was read so far, openTags
\* the stack of tags opened and not yet closed
RECURSIVE ScanNormalizedString(_, _, _, _, _)
ScanNormalizedString(s, i, parts, text, openTags) ==
    IF i > Len(s)
    THEN endOfMessage(FlushText(parts, text), openTags)
    ELSE LET token == IF CharAt(s, i) = "<" THEN TagTokenAt(s, i)
                      ELSE IF i < Len(s) /\ SubSeq(s, i, i + 1) = "{{"
                           THEN PlaceholderTokenAt(s, i)
                      ELSE [found |-> FALSE, part |-> TextPart(""), next |-> i]
         IN IF ~token.found
            THEN ScanNormalizedString(s, i + 1, parts, text \o CharAt(s, i), openTags)
            ELSE IF token.part.type = "START_TAG"
            THEN ScanNormalizedString(s, token.next,
                     Append(FlushText(parts, text), token.part), "",
                     Append(openTags, token.part.value))
            ELSE IF token.part.type = "END_TAG"
            THEN IF ~closesOpenTag(openTags, token.part.value)
                 THEN ParseFailed("unexpected close tag " \o token.part.value)
                 ELSE ScanNormalizedString(s, token.next,
                          Append(FlushText(parts, text), token.part), "",
                          SubSeq(openTags, 1, Len(openTags) - 1))
            ELSE ScanNormalizedString(s, token.next,
                     Append(FlushText(parts, text), token.part), "", openTags)

\* a parser that starts each parse with the parts of the message parsed last
parseNormalizedStringKeepingParts(s) == ScanNormalizedString(s, 1, parsedMessage, "", <<>>)

parseNormalizedString(s) == ScanNormalizedString(s, 1, <<>>, "", <<>>)

---------------------------------------------------------------------------
(* Native encoding of the numbered-placeholder dialect: text nodes and     *)
(* <ph name="..."><ex>...</ex></ph> elements                               *)

TextNode(data) == [node |-> "#text", name |-> "", data |-> data]
PhElement(name, ex) == [node |-> "ph", name |-> name, data |-> ex]

\* a table without the entry for links
symbolicNameForWithoutLink(tagName) ==
    CASE tagName = "b" -> "BOLD_TEXT"
      [] tagName = "i" -> "ITALIC_TEXT"
      [] tagName = "br" -> "LINE_BREAK"
      [] OTHER -> "TAG_" \o toUpperCase(tagName)

\* symbolic name of a tag: the fixed table, TAG_<NAME> for any other tag
symbolicNameFor(tagName) ==
    CASE tagName = "b" -> "BOLD_TEXT"
      [] tagName = "i" -> "ITALIC_TEXT"
      [] tagName = "a" -> "LINK"
      [] tagName = "br" -> "LINE_BREAK"
      [] OTHER -> "TAG_" \o toUpperCase(tagName)

\* the tag a symbolic name stands for
tagNameFor(symbolicName) ==
    CASE symbolicName = "BOLD_TEXT" -> "b"
      [] symbolicName = "ITALIC_TEXT" -> "i"
      [] symbolicName = "LINK" -> "a"
      [] symbolicName = "LINE_BREAK" -> "br"
      [] StartsWith(symbolicName, "TAG_") -> toLowerCase(Drop(symbolicName, 4))
      [] OTHER -> ""

\* name suffixed with an occurrence number or index: NAME for 0, NAME_n for n > 0
NumberedName(name, n) == IF n > 0 THEN name \o "_" \o ToString(n) ELSE name

\* position of the "_" that starts a trailing _<digits> of name, 0 if none
RECURSIVE NumberSuffixAt(_, _)
NumberSuffixAt(name, i) ==
    IF i < 1 THEN 0
    ELSE IF CharAt(name, i) = "_"
         THEN IF i < Len(name) /\ i > 1 THEN i ELSE 0
    ELSE IF IsDigit(CharAt(name, i)) THEN NumberSuffixAt(name, i - 1)
    ELSE 0

\* name without its trailing _<digits>
BaseName(name) ==
    LET k == NumberSuffixAt(name, Len(name))
    IN IF k = 0 THEN name ELSE SubSeq(name, 1, k - 1)

\* the number a name's trailing _<digits> gives, 0 for a bare name
NameNumber(name) ==
    LET k == NumberSuffixAt(name, Len(name))
    IN IF k = 0 THEN 0 ELSE ParseInt(Drop(name, k))

\* a name taken from the interpolation's position among the message's
\* interpolations instead of its index
PlaceholderNameByOccurrence(index, occurrence) ==
    NumberedName("INTERPOLATION", occurrence)

\* a name without any number
PlaceholderNameUnnumbered(index, occurrence) == "INTERPOLATION"

\* native name of the interpolation with the given index, the occurrence-th
\* interpolation of the message (counted from 0)
PlaceholderName(index, occurrence) == NumberedName("INTERPOLATION", index)

\* native name of the ICU message reference with the given index
ICUMessageRefName(index, occurrence) == NumberedName("ICU", index)

\* how many of the parts are of this type and value
RECURSIVE Occurrences(_, _, _)
Occurrences(parts, type, value) ==
    IF parts = <<>> THEN 0
    ELSE (IF Head(parts).type = type /\ Head(parts).value = value THEN 1 ELSE 0)
             + Occurrences(Tail(parts), type, value)

\* native node of the part that follows the parts in before
partAsNative(part, before) ==
    LET occurrence == Occurrences(before, part.type, part.value)
    IN CASE part.type = "TEXT" -> TextNode(part.value)
         [] part.type = "PLACEHOLDER" ->
                PhElement(PlaceholderName(part.index, occurrence),
                          PlaceholderName(part.index, occurrence))
         [] part.type = "ICU_MESSAGE_REF" ->
                PhElement(ICUMessageRefName(part.index, occurrence),
                          ICUMessageRefName(part.index, occurrence))
         [] part.type = "START_TAG" ->
                PhElement(NumberedName("START_" \o symbolicNameFor(part.value), occurrence),
                          "<" \o part.value \o ">")
         [] part.type = "END_TAG" ->
                PhElement(NumberedName("CLOSE_" \o symbolicNameFor(part.value), occurrence),
                          "</" \o part.value \o ">")
         [] part.type = "EMPTY_TAG" ->
                PhElement(NumberedName(symbolicNameFor(part.value), occurrence),
                          "<" \o part.value \o ">")

\* native form of a message: one node per part, in order
asNativeString(parts) ==
    [k \in 1..Len(parts) |-> partAsNative(parts[k], SubSeq(parts, 1, k - 1))]

\* index of the interpolation a marker name stands for
parsePlaceholderIndex(name) == NameNumber(name)

\* an index that ignores the number in the marker name
parseICUMessageRefIndexIgnoringNumber(name) == 0

\* index of the ICU message reference a marker name stands for
parseICUMessageRefIndex(name) == NameNumber(name)

\* what a <ph> element stands for
recognizePlaceholderElement(name) ==
    LET base == BaseName(name)
    IN IF base = "INTERPOLATION" THEN PlaceholderPart(parsePlaceholderIndex(name))
       ELSE IF base = "ICU" THEN ICUMessageRefPart(parseICUMessageRefIndex(name))
       ELSE IF StartsWith(base, "START_") /\ tagNameFor(Drop(base, 6)) # ""
            THEN StartTagPart(tagNameFor(Drop(base, 6)))
       ELSE IF StartsWith(base, "CLOSE_") /\ tagNameFor(Drop(base, 6)) # ""
            THEN EndTagPart(tagNameFor(Drop(base, 6)))
       ELSE IF isEmptyTag(tagNameFor(base)) THEN EmptyTagPart(tagNameFor(base))
       ELSE Part("NOT_A_MARKER", "", 0)

\* walk the children of a native fragment in document order; openTags is the
\* stack of tags opened and not yet closed
RECURSIVE WalkChildren(_, _, _)
WalkChildren(nodes, parts, openTags) ==
    IF nodes = <<>>
    THEN endOfMessage(parts, openTags)
    ELSE LET child == Head(nodes)
             part == IF child.node = "#text" THEN TextPart(child.data)
                     ELSE recognizePlaceholderElement(child.name)
         IN IF part.type = "NOT_A_MARKER"
            THEN WalkChildren(Tail(nodes), parts, openTags)
            ELSE IF part.type = "START_TAG"
            THEN WalkChildren(Tail(nodes), Append(parts, part),
                              Append(openTags, part.value))
            ELSE IF part.type = "END_TAG"
            THEN IF ~closesOpenTag(openTags, part.value)
                 THEN ParseFailed("unexpected close tag " \o part.value)
                 ELSE WalkChildren(Tail(nodes), Append(parts, part),
                                   SubSeq(openTags, 1, Len(openTags) - 1))
            ELSE WalkChildren(Tail(nodes), Append(parts, part), openTags)

createNormalizedMessageFromXML(nodes) == WalkChildren(nodes, <<>>, <<>>)

---------------------------------------------------------------------------
(* Inputs of the message parser *)

\* tags used in generated inputs: one of the table, one unknown
GeneratedTags == {"b", "strange"}

\* display strings of the test suite: the inputs of its "normalized message
\* to xml" cases, and the link its "xml to normalized message" cases expect
TestDisplayStrings ==
    { "a text without anything special",
      "a placeholder: {{0}}",
      "{{1}}: a placeholder: {{0}}",
      "a text <b>with</b> a bold text",
      "a text <i>with</i> emphasis",
      "a text with <strange>strange emphasis</strange>",
      "<b><i><strange>Placeholder {{0}}</strange></i></b>",
      "a text with <ICU-Message-Ref_0/>",
      "<a>link1 with placeholder {{0}}</a>",
      "one line<br>second line" }

\* the constructs generated display strings are made of
GeneratedConstructs ==
    { TextPart("some text") }
    \cup { PlaceholderPart(n) : n \in 0..MaxIndex }
    \cup { ICUMessageRefPart(n) : n \in 0..MaxIndex }
    \cup { EmptyTagPart("br") }
    \cup { StartTagPart(tag) : tag \in GeneratedTags }
    \cup { EndTagPart(tag) : tag \in GeneratedTags }

\* a display string under construction: the string, the tags it has opened
\* and not closed, and whether it ends in text
DisplayPrefix(s, openTags, endsInText) ==
    [s |-> s, openTags |-> openTags, endsInText |-> endsInText]

\* whether the construct may follow the prefix: no text after text, an end
\* tag only for the tag opened last
MayFollow(e, part) ==
    CASE part.type = "TEXT" -> ~e.endsInText
      [] part.type = "END_TAG" ->
             e.openTags # <<>> /\ e.openTags[Len(e.openTags)] = part.value
      [] OTHER -> TRUE

\* the prefix extended by the construct, written as the display grammar
\* writes it
ExtendDisplayPrefix(e, part) ==
    DisplayPrefix(e.s \o partAsDisplayString(part),
                  IF part.type = "START_TAG" THEN Append(e.openTags, part.value)
                  ELSE IF part.type = "END_TAG"
                       THEN SubSeq(e.openTags, 1, Len(e.openTags) - 1)
                  ELSE e.openTags,
                  part.type = "TEXT")

\* the prefixes of exactly n constructs
RECURSIVE DisplayPrefixes(_)
DisplayPrefixes(n) ==
    IF n = 0 THEN {DisplayPrefix("", <<>>, FALSE)}
    ELSE { ExtendDisplayPrefix(p[1], p[2])
             : p \in { q \in DisplayPrefixes(n - 1) \X GeneratedConstructs
                         : MayFollow(q[1], q[2]) } }

\* the valid display strings of at most MaxParts constructs
GeneratedDisplayStrings ==
    UNION { { e.s : e \in { d \in DisplayPrefixes(n) : d.openTags = <<>> } }
              : n \in 0..MaxParts }

DisplayStrings == GeneratedDisplayStrings \cup TestDisplayStrings

\* child nodes used in generated native fragments
GeneratedNodes ==
    { TextNode("some text") }
    \cup { PhElement(NumberedName("INTERPOLATION", n), NumberedName("INTERPOLATION", n))
             : n \in 0..MaxIndex }
    \cup { PhElement(NumberedName("ICU", n), "ICU") : n \in 0..MaxIndex }
    \cup { PhElement("START_" \o symbolicNameFor(tag), "<" \o tag \o ">")
             : tag \in GeneratedTags }
    \cup { PhElement("CLOSE_" \o symbolicNameFor(tag), "</" \o tag \o ">")
             : tag \in GeneratedTags }
    \cup { PhElement("LINE_BREAK", "<br>") }

\* a DOM never holds two adjacent text nodes after parsing
NoAdjacentText(nodes) ==
    \A k \in 1..(Len(nodes) - 1) :
        ~(nodes[k].node = "#text" /\ nodes[k + 1].node = "#text")

\* native fragments of the test suite's "xml to normalized message" cases
TestFragments ==
    { << TextNode("a simple content") >>,
      << TextNode("Diese Nachricht ist "),
         PhElement("START_TAG_STRANGE", "<strange>"),
         PhElement("INTERPOLATION", "INTERPOLATION"),
         PhElement("CLOSE_TAG_STRANGE", "</strange>") >>,
      << TextNode("Diese Nachricht ist "),
         PhElement("START_BOLD_TEXT", "<b>"),
         PhElement("START_TAG_STRANGE", "<strange>"),
         TextNode("SEHR WICHTIG"),
         PhElement("CLOSE_TAG_STRANGE", "</strange>"),
         PhElement("CLOSE_BOLD_TEXT", "</b>") >>,
      << PhElement("START_LINK", "<a>"),
         TextNode("link1 with placeholder "),
         PhElement("INTERPOLATION", "INTERPOLATION"),
         PhElement("CLOSE_LINK", "</a>") >>,
      << TextNode("Diese Nachricht ist falsch geschachtelt: "),
         PhElement("START_BOLD_TEXT", "<b>"),
         PhElement("START_TAG_STRANGE", "<strange>"),
         TextNode("FALSCH"),
         PhElement("CLOSE_BOLD_TEXT", "</b>") >>,
      << TextNode("first: "), PhElement("ICU", "ICU"),
         TextNode(", second "), PhElement("ICU_1", "ICU") >> }

\* every fragment of at most MaxNodes children, well nested or not
GeneratedFragments ==
    { f \in UNION { [1..k -> GeneratedNodes] : k \in 0..MaxNodes } : NoAdjacentText(f) }

NativeFragments == GeneratedFragments \cup TestFragments

---------------------------------------------------------------------------
(* The message parser, driven as the test suite drives it *)

\* parsedMessageFor(s): parse a display string
ParsedMessageFor(s) ==
    /\ LET result == parseNormalizedString(s)
       IN /\ pc' = IF result.ok THEN <<"parsedMessageFor">> ELSE <<"parsedMessageFor", "throw">>
          /\ normalizedString' = s
          /\ parsedMessage' = result.parts
          /\ errorMessage' = result.error
    /\ UNCHANGED <<xmlContent, nativeString, displayString, unitVars>>

\* message.asNativeString() on the message of parsedMessageFor
AsNativeString ==
    /\ pc = <<"parsedMessageFor">>
    /\ nativeString' = asNativeString(parsedMessage)
    /\ pc' = Append(pc, "asNativeString")
    /\ UNCHANGED <<normalizedString, xmlContent, parsedMessage, displayString,
                   errorMessage, unitVars>>

\* parsedMessageFromXML(xml), without a source message
ParsedMessageFromXML(xml) ==
    /\ LET result == createNormalizedMessageFromXML(xml)
       IN /\ pc' = IF result.ok THEN Append(pc, "parsedMessageFromXML")
                   ELSE pc \o <<"parsedMessageFromXML", "throw">>
          /\ xmlContent' = xml
          /\ parsedMessage' = result.parts
          /\ errorMessage' = result.error
    /\ UNCHANGED <<normalizedString, nativeString, displayString, unitVars>>

\* checkToXmlAndBack: the xml is what asNativeString returned
ParsedMessageFromNativeString ==
    /\ pc = <<"parsedMessageFor", "asNativeString">>
    /\ ParsedMessageFromXML(nativeString)

\* a test case that starts from native xml
ParsedMessageFromFragment ==
    /\ pc = <<>>
    /\ \E xml \in NativeFragments : ParsedMessageFromXML(xml)

\* message.asDisplayString() on the message of the last parse
AsDisplayString ==
    /\ pc # <<>>
    /\ Len(pc) < MaxCalls
    /\ pc[Len(pc)] \in {"parsedMessageFor", "parsedMessageFromXML"}
    /\ displayString' = asDisplayString(parsedMessage)
    /\ pc' = Append(pc, "asDisplayString")
    /\ UNCHANGED <<normalizedString, xmlContent, parsedMessage, nativeString,
                   errorMessage, unitVars>>

\* a test case that starts from a display string
ParseDisplayString ==
    /\ pc = <<>>
    /\ \E s \in DisplayStrings : ParsedMessageFor(s)

\* a test case that starts from one of the suite's display strings
ParseTestDisplayString ==
    /\ pc = <<>>
    /\ \E s \in TestDisplayStrings : ParsedMessageFor(s)

\* a test case that starts from one of the suite's native fragments
ParseTestFragment ==
    /\ pc = <<>>
    /\ \E xml \in TestFragments : ParsedMessageFromXML(xml)

\* no call has thrown and another call may follow
MayCallAgain == pc # <<>> /\ pc[Len(pc)] # "throw" /\ Len(pc) < MaxCalls

\* parsedMessageFor on the display string parsed first, with a new parser
ParsedMessageForAgain ==
    /\ MayCallAgain
    /\ pc[1] = "parsedMessageFor"
    /\ LET result == parseNormalizedString(normalizedString)
       IN /\ pc' = IF result.ok THEN Append(pc, "parsedMessageFor")
                   ELSE pc \o <<"parsedMessageFor", "throw">>
          /\ parsedMessage' = result.parts
          /\ errorMessage' = result.error
    /\ UNCHANGED <<normalizedString, xmlContent, nativeString, displayString, unitVars>>

\* parsedMessageFromXML on the xml parsed last, with a new parser
ParsedMessageFromXMLAgain ==
    /\ MayCallAgain
    /\ "parsedMessageFromXML" \in { pc[k] : k \in 1..Len(pc) }
    /\ LET result == createNormalizedMessageFromXML(xmlContent)
       IN /\ pc' = IF result.ok THEN Append(pc, "parsedMessageFromXML")
                   ELSE pc \o <<"parsedMessageFromXML", "throw">>
          /\ parsedMessage' = result.parts
          /\ errorMessage' = result.error
    /\ UNCHANGED <<normalizedString, xmlContent, nativeString, displayString, unitVars>>

\* message.asNativeString() once more on the message of parsedMessageFor
AsNativeStringAgain ==
    /\ MayCallAgain
    /\ "asNativeString" \in { pc[k] : k \in 1..Len(pc) }
    /\ "parsedMessageFromXML" \notin { pc[k] : k \in 1..Len(pc) }
    /\ nativeString' = asNativeString(parsedMessage)
    /\ pc' = Append(pc, "asNativeString")
    /\ UNCHANGED <<normalizedString, xmlContent, parsedMessage, displayString,
                   errorMessage, unitVars>>

---------------------------------------------------------------------------
(* Translation unit: the fragment and the state mapping *)

\* the abstract states (api/constants)
STATE_NEW == "new"
STATE_TRANSLATED == "translated"
STATE_FINAL == "final"

\* JavaScript's null: an absent attribute, a missing element's content
null == "<null>"

\* The fragment a unit wraps.  dialect "A" is XLIFF 1.2 (the state attribute
\* sits on <target>), dialect "B" is XLIFF 2.0 (it sits on <segment>); state
\* is the value of that attribute, null when the attribute or its element is
\* absent.
\*
\* Annotations: noteElements are the <note> elements in document order, each
\* with the value of its from (A) or category (B) attribute and its text; in
\* B they are the children of the <notes> container, present iff hasNotes.
\* contextGroups are the <context-group> elements of an A unit.  A fragment
\* built by Fragment has no annotations; Annotated adds them.
Fragment(dialect, hasSegment, hasSource, sourceContent, hasTarget, targetContent, state) ==
    [dialect |-> dialect, hasSegment |-> hasSegment,
     hasSource |-> hasSource, sourceContent |-> sourceContent,
     hasTarget |-> hasTarget, targetContent |-> targetContent,
     state |-> state,
     hasNotes |-> FALSE, noteElements |-> <<>>, contextGroups |-> <<>>]

Annotated(u, hasNotes, noteElements, contextGroups) ==
    [u EXCEPT !.hasNotes = hasNotes, !.noteElements = noteElements,
              !.contextGroups = contextGroups]

\* whether the element that carries the state attribute exists
HasStateElement(u) == IF u.dialect = "A" THEN u.hasTarget ELSE u.hasSegment

\* a setNativeTargetState that writes the attribute although its element is
\* absent
setNativeTargetStateCreating(u, nativeState) == [u EXCEPT !.state = nativeState]

\* nativeTargetState(): the state as stored in the xml
nativeTargetState(u) == IF HasStateElement(u) THEN u.state ELSE null

\* setNativeTargetState(nativeState): nothing happens without the element
setNativeTargetState(u, nativeState) ==
    IF HasStateElement(u) THEN [u EXCEPT !.state = nativeState] ELSE u

\* outcome of a call that may throw
Returned(value) == [threw |-> FALSE, value |-> value, error |-> ""]
Threw(error) == [threw |-> TRUE, value |-> "", error |-> error]

\* a forward mapping that writes XLIFF 1.2's token for NEW in both dialects
mapStateToNativeStateSameTokens(dialect, state) ==
    CASE state = STATE_NEW -> Returned("new")
      [] state = STATE_TRANSLATED -> Returned("translated")
      [] state = STATE_FINAL -> Returned("final")
      [] OTHER -> Threw("unknown state " \o state)

\* a forward mapping that accepts any value instead of throwing
mapStateToNativeStateLenient(dialect, state) ==
    CASE state = STATE_NEW -> Returned(IF dialect = "A" THEN "new" ELSE "initial")
      [] state = STATE_TRANSLATED -> Returned("translated")
      [] state = STATE_FINAL -> Returned("final")
      [] OTHER -> Returned(state)

\* mapStateToNativeState(state): abstract state to the dialect's token
mapStateToNativeState(dialect, state) ==
    CASE state = STATE_NEW -> Returned(IF dialect = "A" THEN "new" ELSE "initial")
      [] state = STATE_TRANSLATED -> Returned("translated")
      [] state = STATE_FINAL -> Returned("final")
      [] OTHER -> Threw("unknown state " \o state)

\* a reverse mapping whose default is TRANSLATED
mapNativeStateToStateWrongDefault(dialect, nativeState) ==
    IF dialect = "A"
    THEN CASE nativeState \in {"new", "needs-translation"} -> STATE_NEW
           [] nativeState \in {"translated", "needs-adaptation", "needs-l10n",
                               "needs-review-adaptation", "needs-review-l10n",
                               "needs-review-translation"} -> STATE_TRANSLATED
           [] nativeState \in {"final", "signed-off"} -> STATE_FINAL
           [] OTHER -> STATE_TRANSLATED
    ELSE CASE nativeState = "initial" -> STATE_NEW
           [] nativeState \in {"translated", "reviewed"} -> STATE_TRANSLATED
           [] nativeState = "final" -> STATE_FINAL
           [] OTHER -> STATE_TRANSLATED

\* mapNativeStateToState(nativeState): the dialect's token to abstract state
mapNativeStateToState(dialect, nativeState) ==
    IF dialect = "A"
    THEN CASE nativeState = "new" -> STATE_NEW
           [] nativeState = "needs-translation" -> STATE_NEW
           [] nativeState = "translated" -> STATE_TRANSLATED
           [] nativeState = "needs-adaptation" -> STATE_TRANSLATED
           [] nativeState = "needs-l10n" -> STATE_TRANSLATED
           [] nativeState = "needs-review-adaptation" -> STATE_TRANSLATED
           [] nativeState = "needs-review-l10n" -> STATE_TRANSLATED
           [] nativeState = "needs-review-translation" -> STATE_TRANSLATED
           [] nativeState = "final" -> STATE_FINAL
           [] nativeState = "signed-off" -> STATE_FINAL
           [] OTHER -> STATE_NEW
    ELSE CASE nativeState = "initial" -> STATE_NEW
           [] nativeState = "translated" -> STATE_TRANSLATED
           [] nativeState = "reviewed" -> STATE_TRANSLATED
           [] nativeState = "final" -> STATE_FINAL
           [] OTHER -> STATE_NEW

\* targetState(): the abstract state of the unit
targetState(u) == mapNativeStateToState(u.dialect, nativeTargetState(u))

\* setTargetState(newState): the mapping throws before anything is written
setTargetState(u, newState) ==
    LET native == mapStateToNativeState(u.dialect, newState)
    IN IF native.threw THEN [threw |-> TRUE, unit |-> u, error |-> native.error]
       ELSE [threw |-> FALSE, unit |-> setNativeTargetState(u, native.value), error |-> ""]

\* a translateNative that replaces the notes of the unit as well
translateNativeDroppingNotes(u, translation) ==
    IF ~u.hasTarget /\ ~u.hasSource
    THEN [threw |-> TRUE, unit |-> u, error |-> "TypeError"]
    ELSE setTargetState([u EXCEPT !.hasTarget = TRUE, !.targetContent = translation,
                                  !.hasNotes = FALSE, !.noteElements = <<>>],
                        STATE_TRANSLATED)

\* a translateNative that fills a new target but leaves an existing one alone
translateNativeKeepingTarget(u, translation) ==
    IF ~u.hasTarget /\ ~u.hasSource
    THEN [threw |-> TRUE, unit |-> u, error |-> "TypeError"]
    ELSE setTargetState([u EXCEPT !.hasTarget = TRUE,
                                  !.targetContent = IF u.hasTarget THEN @ ELSE translation],
                        STATE_TRANSLATED)

\* translateNative(translation): write the target, creating it after (A) or
\* beside (B) the source when absent, then set the state to TRANSLATED
translateNative(u, translation) ==
    IF ~u.hasTarget /\ ~u.hasSource
    THEN [threw |-> TRUE, unit |-> u, error |-> "TypeError"]
    ELSE setTargetState([u EXCEPT !.hasTarget = TRUE, !.targetContent = translation],
                        STATE_TRANSLATED)

---------------------------------------------------------------------------
(* Translation unit: content accessors *)

\* sourceContent(): the markup inside <source>, null without the element
sourceContent(u) == IF u.hasSource THEN u.sourceContent ELSE null

\* targetContent(): the markup inside <target>, null without the element
targetContent(u) == IF u.hasTarget THEN u.targetContent ELSE null

\* a setSourceContent that fills a new <source> but leaves an existing one alone
setSourceContentCreateOnly(u, newContent) ==
    IF ~u.hasSource /\ u.dialect = "B" /\ ~u.hasSegment
    THEN [threw |-> TRUE, unit |-> u, error |-> "TypeError"]
    ELSE [threw |-> FALSE,
          unit |-> [u EXCEPT !.hasSource = TRUE,
                             !.sourceContent = IF u.hasSource THEN @ ELSE newContent],
          error |-> ""]

\* setSourceContent(newContent): write the source; when it is absent A
\* appends it to the unit and B to the parent of <segment>, which fails
\* without a <segment>
setSourceContent(u, newContent) ==
    IF ~u.hasSource /\ u.dialect = "B" /\ ~u.hasSegment
    THEN [threw |-> TRUE, unit |-> u, error |-> "TypeError"]
    ELSE [threw |-> FALSE,
          unit |-> [u EXCEPT !.hasSource = TRUE, !.sourceContent = newContent],
          error |-> ""]

\* the children of an element whose content is text without markup
childNodes(content) == IF content = "" THEN <<>> ELSE << TextNode(content) >>

\* createSourceContentNormalized(): the parsed source, null without <source>
createSourceContentNormalized(u) ==
    IF u.hasSource
    THEN createNormalizedMessageFromXML(childNodes(u.sourceContent))
    ELSE null

\* sourceContentNormalized(): derived from the tree on every call
sourceContentNormalized(u) == createSourceContentNormalized(u)

\* targetContentNormalized(): the parsed target; a missing <target> gives a
\* message without parts.  The source message handed to the parser does not
\* change how text without markup is parsed.
targetContentNormalized(u) ==
    createNormalizedMessageFromXML(IF u.hasTarget THEN childNodes(u.targetContent) ELSE <<>>)

---------------------------------------------------------------------------
(* Translation unit: description, meaning and notes *)

\* <note from=...> (A) or <note category=...> (B); the attribute is only set
\* for a non-empty value, and only non-empty content is written
NoteElement(attrValue, content) ==
    [attribute |-> IF attrValue # "" /\ attrValue # null THEN attrValue ELSE null,
     content |-> IF content # null THEN content ELSE ""]

\* DOMUtilities.getPCDATA: the text of an element
getPCDATA(element) == element.content

\* s without its element at position i
RemoveAt(s, i) == SubSeq(s, 1, i - 1) \o SubSeq(s, i + 1, Len(s))

\* position of the first <note> whose attribute has the value, 0 if none
RECURSIVE findNoteElementFrom(_, _, _)
findNoteElementFrom(noteElements, attrValue, i) ==
    IF i > Len(noteElements) THEN 0
    ELSE IF noteElements[i].attribute = attrValue THEN i
    ELSE findNoteElementFrom(noteElements, attrValue, i + 1)

findNoteElementWithFromAttribute(u, attrValue) ==
    findNoteElementFrom(u.noteElements, attrValue, 1)

IsAdditionalNoteElement(noteElem) ==
    noteElem.attribute # "description" /\ noteElem.attribute # "meaning"

\* all note elements whose attribute is neither description nor meaning
findAllAdditionalNoteElements(u) == SelectSeq(u.noteElements, IsAdditionalNoteElement)

\* append a <note>; dialect B creates the <notes> container when absent
createNoteElementWithFromAttribute(u, fromAttrValue, content) ==
    [u EXCEPT !.hasNotes = IF u.dialect = "B" THEN TRUE ELSE @,
              !.noteElements = Append(@, NoteElement(fromAttrValue, content))]

\* a removeNotesElementIfEmpty that keeps the container
removeNotesElementIfEmptyKeeping(u) == u

\* dialect B: drop the <notes> container when no <note> is left
removeNotesElementIfEmpty(u) ==
    IF u.hasNotes /\ u.noteElements = <<>> THEN [u EXCEPT !.hasNotes = FALSE] ELSE u

\* remove the first <note> with the attribute value
removeNoteElementWithFromAttribute(u, attrValue) ==
    LET i == findNoteElementWithFromAttribute(u, attrValue)
        removed == IF i > 0 THEN [u EXCEPT !.noteElements = RemoveAt(@, i)] ELSE u
    IN IF u.dialect = "B" THEN removeNotesElementIfEmpty(removed) ELSE removed

IsReservedNoteElement(noteElem) == ~IsAdditionalNoteElement(noteElem)

\* remove every <note> that is neither description nor meaning
removeAllAdditionalNoteElements(u) ==
    LET removed == [u EXCEPT !.noteElements = SelectSeq(@, IsReservedNoteElement)]
    IN IF u.dialect = "B" THEN removeNotesElementIfEmpty(removed) ELSE removed

\* a description() that returns the empty string when the note is absent
descriptionOrEmpty(u) ==
    LET noteElem == findNoteElementWithFromAttribute(u, "description")
    IN IF noteElem > 0 THEN getPCDATA(u.noteElements[noteElem]) ELSE ""

\* description(): the text of the description note, null when absent
description(u) ==
    LET noteElem == findNoteElementWithFromAttribute(u, "description")
    IN IF noteElem > 0 THEN getPCDATA(u.noteElements[noteElem]) ELSE null

\* a setDescription that creates the note when absent but never rewrites it
setDescriptionCreateOnly(u, newDescription) ==
    LET noteElem == findNoteElementWithFromAttribute(u, "description")
    IN IF newDescription # "" /\ newDescription # null
       THEN IF noteElem = 0
            THEN createNoteElementWithFromAttribute(u, "description", newDescription)
            ELSE u
       ELSE IF noteElem # 0
            THEN removeNoteElementWithFromAttribute(u, "description")
            ELSE u

\* setDescription(description): create, rewrite or remove the note
setDescription(u, newDescription) ==
    LET noteElem == findNoteElementWithFromAttribute(u, "description")
    IN IF newDescription # "" /\ newDescription # null
       THEN IF noteElem = 0
            THEN createNoteElementWithFromAttribute(u, "description", newDescription)
            ELSE [u EXCEPT !.noteElements[noteElem].content = newDescription]
       ELSE IF noteElem # 0
            THEN removeNoteElementWithFromAttribute(u, "description")
            ELSE u

\* meaning(): the text of the meaning note, null when absent
meaning(u) ==
    LET noteElem == findNoteElementWithFromAttribute(u, "meaning")
    IN IF noteElem > 0 THEN getPCDATA(u.noteElements[noteElem]) ELSE null

\* setMeaning(meaning): create, rewrite or remove the note
setMeaning(u, newMeaning) ==
    LET noteElem == findNoteElementWithFromAttribute(u, "meaning")
    IN IF newMeaning # "" /\ newMeaning # null
       THEN IF noteElem = 0
            THEN createNoteElementWithFromAttribute(u, "meaning", newMeaning)
            ELSE [u EXCEPT !.noteElements[noteElem].content = newMeaning]
       ELSE IF noteElem # 0
            THEN removeNoteElementWithFromAttribute(u, "meaning")
            ELSE u

INote(from, text) == [from |-> from, text |-> text]

\* notes(): the additional notes, in document order
notes(u) ==
    LET noteElements == findAllAdditionalNoteElements(u)
    IN [i \in 1..Len(noteElements) |->
           INote(noteElements[i].attribute, getPCDATA(noteElements[i]))]

\* checkNotes(newNotes): no note may use a reserved origin
checkNotes(newNotes) ==
    IF \E i \in 1..Len(newNotes) : newNotes[i].from \in {"description", "meaning"}
    THEN Threw("description or meaning are not allowed as from atttribute in notes")
    ELSE Returned("")

RECURSIVE createNoteElements(_, _)
createNoteElements(u, newNotes) ==
    IF newNotes = <<>> THEN u
    ELSE createNoteElements(
             createNoteElementWithFromAttribute(u, Head(newNotes).from, Head(newNotes).text),
             Tail(newNotes))

\* a setNotes that adds the new notes to the ones already there
setNotesMerging(u, newNotes) ==
    LET checked == checkNotes(newNotes)
    IN IF checked.threw THEN [threw |-> TRUE, unit |-> u, error |-> checked.error]
       ELSE [threw |-> FALSE, unit |-> createNoteElements(u, newNotes), error |-> ""]

\* a setNotes that removes the old notes before it checks the new ones
setNotesCheckingLate(u, newNotes) ==
    LET checked == checkNotes(newNotes)
        removed == removeAllAdditionalNoteElements(u)
    IN IF checked.threw THEN [threw |-> TRUE, unit |-> removed, error |-> checked.error]
       ELSE [threw |-> FALSE, unit |-> createNoteElements(removed, newNotes), error |-> ""]

\* a setNotes that does not check the origins of the new notes
setNotesUnchecked(u, newNotes) ==
    [threw |-> FALSE,
     unit |-> createNoteElements(removeAllAdditionalNoteElements(u), newNotes),
     error |-> ""]

\* setNotes(newNotes): check, remove all additional notes, add the new ones
setNotes(u, newNotes) ==
    LET checked == checkNotes(newNotes)
    IN IF checked.threw THEN [threw |-> TRUE, unit |-> u, error |-> checked.error]
       ELSE [threw |-> FALSE,
             unit |-> createNoteElements(removeAllAdditionalNoteElements(u), newNotes),
             error |-> ""]

---------------------------------------------------------------------------
(* Translation unit: source references *)

SourceRef(sourcefile, linenumber) == [sourcefile |-> sourcefile, linenumber |-> linenumber]

\* <context context-type=...>text</context>
Context(contextType, text) == [contextType |-> contextType, content |-> text]

\* <context-group purpose=...> with its <context> children
ContextGroup(purpose, contexts) == [purpose |-> purpose, contexts |-> contexts]

IsLocation(elem) == elem.purpose = "location"
IsNotLocation(elem) == elem.purpose # "location"
IsLocationNote(noteElem) == noteElem.attribute = "location"
IsNotLocationNote(noteElem) == noteElem.attribute # "location"

\* last position <= from at which pat occurs in s, 0 if there is none
RECURSIVE LastIndexOf(_, _, _)
LastIndexOf(s, pat, from) ==
    IF from < 1 THEN 0
    ELSE IF from + Len(pat) - 1 <= Len(s) /\ SubSeq(s, from, from + Len(pat) - 1) = pat
         THEN from
    ELSE LastIndexOf(s, pat, from - 1)

parseLineNumber(lineNumberString) == ParseInt(lineNumberString)

\* a parseSourceAndPos that splits at the first colon
parseSourceAndPosAtFirstColon(sourceAndPos) ==
    LET index == IndexOf(sourceAndPos, ":", 1)
    IN IF index = 0 THEN SourceRef(sourceAndPos, 0)
       ELSE SourceRef(SubSeq(sourceAndPos, 1, index - 1),
                      parseLineNumber(Drop(sourceAndPos, index)))

\* parseSourceAndPos('c:\xxx:7'): the last colon is the separator
parseSourceAndPos(sourceAndPos) ==
    LET index == LastIndexOf(sourceAndPos, ":", Len(sourceAndPos))
    IN IF index = 0 THEN SourceRef(sourceAndPos, 0)
       ELSE SourceRef(SubSeq(sourceAndPos, 1, index - 1),
                      parseLineNumber(Drop(sourceAndPos, index)))

\* the sourcefile and linenumber the <context> elements of a group give:
\* the last context of each type wins, null and 0 when there is none
RECURSIVE ReadContexts(_, _)
ReadContexts(contexts, ref) ==
    IF contexts = <<>> THEN ref
    ELSE LET contextElem == Head(contexts)
             withFile == IF contextElem.contextType = "sourcefile"
                         THEN [ref EXCEPT !.sourcefile = getPCDATA(contextElem)]
                         ELSE ref
             withLine == IF contextElem.contextType = "linenumber"
                         THEN [withFile EXCEPT !.linenumber = ParseInt(getPCDATA(contextElem))]
                         ELSE withFile
         IN ReadContexts(Tail(contexts), withLine)

\* sourceReferences(): A reads the location context groups, B the notes of
\* category location, both in document order
sourceReferences(u) ==
    IF u.dialect = "A"
    THEN LET sourceElements == SelectSeq(u.contextGroups, IsLocation)
         IN [i \in 1..Len(sourceElements) |->
                ReadContexts(sourceElements[i].contexts, SourceRef(null, 0))]
    ELSE LET noteElements == SelectSeq(u.noteElements, IsLocationNote)
         IN [i \in 1..Len(noteElements) |-> parseSourceAndPos(getPCDATA(noteElements[i]))]

\* removeAllSourceReferences(): the container of dialect B stays
removeAllSourceReferences(u) ==
    IF u.dialect = "A"
    THEN [u EXCEPT !.contextGroups = SelectSeq(@, IsNotLocation)]
    ELSE [u EXCEPT !.noteElements = SelectSeq(@, IsNotLocationNote)]

\* the element a source reference is stored in
LocationContextGroup(ref) ==
    ContextGroup("location", << Context("sourcefile", ref.sourcefile),
                                Context("linenumber", ToString(ref.linenumber)) >>)

LocationNote(ref) ==
    [attribute |-> "location", content |-> ref.sourcefile \o ":" \o ToString(ref.linenumber)]

\* setSourceReferences(sourceRefs): old references are removed.  Dialect B
\* removes a <notes> container that is left without children when no
\* reference is set, and otherwise creates the container when it is absent.
setSourceReferences(u, sourceRefs) ==
    LET removed == removeAllSourceReferences(u)
    IN IF u.dialect = "A"
       THEN [removed EXCEPT !.contextGroups =
                @ \o [i \in 1..Len(sourceRefs) |-> LocationContextGroup(sourceRefs[i])]]
       ELSE IF Len(sourceRefs) = 0 /\ removed.hasNotes /\ removed.noteElements = <<>>
            THEN [removed EXCEPT !.hasNotes = FALSE]
            ELSE [removed EXCEPT !.hasNotes = TRUE,
                                 !.noteElements =
                                     @ \o [i \in 1..Len(sourceRefs) |->
                                              LocationNote(sourceRefs[i])]]

---------------------------------------------------------------------------
(* Translation unit: source as target, clone *)

\* configuration a translation messages file supplies to its units
TranslationMessagesFile(praefix, suffix) == [praefix |-> praefix, suffix |-> suffix]

\* isICUMessage(message): the ICU detector looks at the start of the message
isICUMessage(message) ==
    \/ StartsWith(message, "{VAR_PLURAL")
    \/ StartsWith(message, "{VAR_SELECT")

\* a string as JavaScript's + concatenates it
AsString(value) == IF value = null THEN "null" ELSE value

\* a useSourceAsTarget that copies the source without praefix and suffix
useSourceAsTargetWithoutAffix(u, file, isDefaultLang, copyContent) ==
    IF ~u.hasTarget /\ ~u.hasSource
    THEN [threw |-> TRUE, unit |-> u, error |-> "TypeError"]
    ELSE LET sourceString == sourceContent(u)
             newTargetString == IF isDefaultLang \/ copyContent
                                THEN AsString(sourceString)
                                ELSE ""
             newState == mapStateToNativeState(
                             u.dialect, IF isDefaultLang THEN STATE_FINAL ELSE STATE_NEW).value
             written == [u EXCEPT !.hasTarget = TRUE, !.targetContent = newTargetString]
         IN [threw |-> FALSE,
             unit |-> IF u.dialect = "A" \/ u.hasSegment
                      THEN [written EXCEPT !.state = newState]
                      ELSE written,
             error |-> ""]

\* useSourceAsTarget(isDefaultLang, copyContent): the target is created when
\* absent (which needs the source element), its content becomes the source,
\* the source between praefix and suffix, or nothing; the state attribute is
\* written on <target> (A) or on <segment> when there is one (B)
useSourceAsTarget(u, file, isDefaultLang, copyContent) ==
    IF ~u.hasTarget /\ ~u.hasSource
    THEN [threw |-> TRUE, unit |-> u, error |-> "TypeError"]
    ELSE LET sourceString == sourceContent(u)
             newTargetString ==
                 IF isDefaultLang \/ copyContent
                 THEN IF sourceString # null /\ isICUMessage(sourceString)
                      THEN sourceString
                      ELSE file.praefix \o AsString(sourceString) \o file.suffix
                 ELSE ""
             newState == mapStateToNativeState(
                             u.dialect, IF isDefaultLang THEN STATE_FINAL ELSE STATE_NEW).value
             written == [u EXCEPT !.hasTarget = TRUE, !.targetContent = newTargetString]
         IN [threw |-> FALSE,
             unit |-> IF u.dialect = "A" \/ u.hasSegment
                      THEN [written EXCEPT !.state = newState]
                      ELSE written,
             error |-> ""]

\* no clone has been made
NoClone == [exists |-> FALSE]

\* a unit made by cloneWithSourceAsTarget: its id, its owner, the element it
\* wraps, and whether that element is the receiver's own
Clone(unitId, file, element, isReceiversElement) ==
    [exists |-> TRUE, id |-> unitId, translationMessagesFile |-> file,
     element |-> element, isReceiversElement |-> isReceiversElement]

\* element.cloneNode(true): a new tree equal to the element's
cloneNode(element) == [element |-> element, isReceiversElement |-> FALSE]

\* the outcome of cloneWithSourceAsTarget: the receiver's element afterwards
\* and the clone
Cloned(receiver, made, copied) ==
    [threw |-> copied.threw, error |-> copied.error,
     receiver |-> IF made.isReceiversElement THEN copied.unit ELSE receiver,
     clone |-> IF copied.threw THEN NoClone
               ELSE Clone(made.id, made.file, copied.unit, made.isReceiversElement)]

\* a cloneWithSourceAsTarget that wraps the receiver's own element
cloneWithSourceAsTargetInPlace(u, unitId, isDefaultLang, copyContent, targetFile) ==
    Cloned(u, [id |-> unitId, file |-> targetFile, isReceiversElement |-> TRUE],
           useSourceAsTarget(u, targetFile, isDefaultLang, copyContent))

\* cloneWithSourceAsTarget(isDefaultLang, copyContent, targetFile): a unit
\* with the receiver's id on a deep copy of its element, owned by targetFile,
\* on which useSourceAsTarget is called
cloneWithSourceAsTarget(u, unitId, isDefaultLang, copyContent, targetFile) ==
    LET element == cloneNode(u)
    IN Cloned(u, [id |-> unitId, file |-> targetFile,
                  isReceiversElement |-> element.isReceiversElement],
              useSourceAsTarget(element.element, targetFile, isDefaultLang, copyContent))

---------------------------------------------------------------------------
(* Inputs of the translation unit *)

\* the tokens each dialect's reverse mapping names in a case label
RecognizedTokens(dialect) ==
    IF dialect = "A"
    THEN {"new", "needs-translation", "translated", "needs-adaptation", "needs-l10n",
          "needs-review-adaptation", "needs-review-l10n", "needs-review-translation",
          "final", "signed-off"}
    ELSE {"initial", "translated", "reviewed", "final"}

\* state attribute values a file may hold: both dialects' tokens, a token of
\* neither, the empty string, and no attribute at all
NativeTokens == RecognizedTokens("A") \cup RecognizedTokens("B") \cup {"bogus", "", null}

\* values a caller may pass as abstract state: the three states and others
StateArguments == {STATE_NEW, STATE_TRANSLATED, STATE_FINAL, "reviewed", "initial", ""}

SourceContents == {"Hello"}
TargetContents == {"Hallo", ""}
Translations == {"Bonjour", "Hallo"}

\* the fragments a file can hand to a unit
Fragments ==
    { Fragment("A", FALSE, hasSource, IF hasSource THEN src ELSE "",
               hasTarget, IF hasTarget THEN tgt ELSE "",
               IF hasTarget THEN state ELSE null)
        : hasSource \in BOOLEAN, src \in SourceContents,
          hasTarget \in BOOLEAN, tgt \in TargetContents, state \in NativeTokens }
    \cup
    { Fragment("B", hasSegment, hasSource, IF hasSource THEN src ELSE "",
               hasTarget, IF hasTarget THEN tgt ELSE "",
               IF hasSegment THEN state ELSE null)
        : hasSegment \in BOOLEAN, hasSource \in BOOLEAN, src \in SourceContents,
          hasTarget \in BOOLEAN, tgt \in TargetContents, state \in NativeTokens }

Call(name, arg) == [name |-> name, arg |-> arg]

\* a file configured without praefix and suffix
DefaultFile == TranslationMessagesFile("", "")

\* origins a translator's note may carry, and the two reserved ones
NoteOrigins == {"translator", "reviewer"}
ReservedOrigins == {"description", "meaning"}
NoteTexts == {"check wording"}

\* all sequences over S of length at most n
SeqsUpTo(S, n) == UNION { [1..k -> S] : k \in 0..n }

\* whether a list of notes has an entry with a reserved origin
Collides(newNotes) == \E i \in 1..Len(newNotes) : newNotes[i].from \in ReservedOrigins

\* lists handed to setNotes: any order of ordinary notes, and lists in which
\* one entry, at any position, has a reserved origin
NoteLists ==
    { L \in SeqsUpTo({ INote(from, text) : from \in NoteOrigins \cup ReservedOrigins,
                                           text \in NoteTexts }, MaxNotes) :
        Cardinality({ i \in 1..Len(L) : L[i].from \in ReservedOrigins }) <= 1 }

\* values handed to setDescription and setMeaning; "" clears
Descriptions == {"", "Greeting", "Farewell"}
Meanings == {"", "salutation"}

\* source references, one of them in a file whose name contains a colon
SourceRefs == { SourceRef("app.component.ts", 7), SourceRef("c:/src/app.ts", 12) }
SourceRefLists == SeqsUpTo(SourceRefs, MaxRefs)

\* annotations a file can hold for a unit: none, the ones the extractor
\* writes (description, meaning, one location), or a translator's note
AnnotatedFragments ==
    LET a == Fragment("A", FALSE, TRUE, "Hello", TRUE, "Hallo", "translated")
        b == Fragment("B", TRUE, TRUE, "Hello", TRUE, "Hallo", "translated")
        ref == SourceRef("app.component.ts", 7)
        extracted == << NoteElement("description", "Greeting"),
                        NoteElement("meaning", "salutation") >>
        remark == << NoteElement("translator", "check wording") >>
    IN { a, b,
         Annotated(a, FALSE, extracted, << LocationContextGroup(ref) >>),
         Annotated(b, TRUE, extracted \o << LocationNote(ref) >>, <<>>),
         Annotated(a, FALSE, remark, <<>>),
         Annotated(b, TRUE, remark, <<>>) }

\* the owning files: one without affixes, one that marks new translations
Files == { DefaultFile, TranslationMessagesFile("[[ ", " ]]") }

ICUSource == "{VAR_PLURAL, plural, =0 {none} other {many}}"

\* units a file hands to useSourceAsTarget: with a source, with or without
\* target and segment, in any of the states a translation goes through
CopyFragments ==
    LET annotate(u) ==
            { u,
              IF u.dialect = "A"
              THEN Annotated(u, FALSE, << NoteElement("description", "Greeting") >>,
                             << LocationContextGroup(SourceRef("app.component.ts", 7)) >>)
              ELSE Annotated(u, TRUE,
                             << NoteElement("description", "Greeting"),
                                LocationNote(SourceRef("app.component.ts", 7)) >>, <<>>) }
    IN UNION { annotate(u) :
                 u \in { f \in Fragments :
                            /\ f.hasSource
                            /\ f.targetContent # ""
                            /\ f.state \in {null, "translated", "final"} } }
       \cup { [u EXCEPT !.sourceContent = ICUSource] :
                 u \in { f \in Fragments :
                            /\ f.hasSource
                            /\ f.targetContent # ""
                            /\ f.state \in {null, "translated"} } }

\* contents handed to setSourceContent
SourceUpdates == {"Goodbye", "Hello"}

\* units whose content is read and written: with or without source, target
\* and segment, unannotated or annotated
ContentFragments ==
    { f \in Fragments : f.state \in {null, "translated"} } \cup AnnotatedFragments

---------------------------------------------------------------------------
(* Operations on the translation unit *)

\* unit.targetState()
TargetState ==
    /\ lastOp' = Call("targetState", "")
    /\ returned' = targetState(unit)
    /\ thrown' = ""
    /\ UNCHANGED <<unit, ownerVars, parserVars>>

\* unit.setTargetState(newState)
SetTargetState ==
    \E newState \in StateArguments :
        LET result == setTargetState(unit, newState)
        IN /\ lastOp' = Call("setTargetState", newState)
           /\ unit' = result.unit
           /\ returned' = ""
           /\ thrown' = result.error
           /\ UNCHANGED <<ownerVars, parserVars>>

\* unit.translate(translation) with a native string
Translate ==
    \E translation \in Translations :
        LET result == translateNative(unit, translation)
        IN /\ lastOp' = Call("translate", translation)
           /\ unit' = result.unit
           /\ returned' = ""
           /\ thrown' = result.error
           /\ UNCHANGED <<ownerVars, parserVars>>

\* unit.description()
Description ==
    /\ lastOp' = Call("description", "")
    /\ returned' = description(unit)
    /\ thrown' = ""
    /\ UNCHANGED <<unit, ownerVars, parserVars>>

\* unit.setDescription(description)
SetDescription ==
    \E newDescription \in Descriptions :
        /\ lastOp' = Call("setDescription", newDescription)
        /\ unit' = setDescription(unit, newDescription)
        /\ returned' = ""
        /\ thrown' = ""
        /\ UNCHANGED <<ownerVars, parserVars>>

\* unit.meaning()
Meaning ==
    /\ lastOp' = Call("meaning", "")
    /\ returned' = meaning(unit)
    /\ thrown' = ""
    /\ UNCHANGED <<unit, ownerVars, parserVars>>

\* unit.setMeaning(meaning)
SetMeaning ==
    \E newMeaning \in Meanings :
        /\ lastOp' = Call("setMeaning", newMeaning)
        /\ unit' = setMeaning(unit, newMeaning)
        /\ returned' = ""
        /\ thrown' = ""
        /\ UNCHANGED <<ownerVars, parserVars>>

\* unit.notes()
Notes ==
    /\ lastOp' = Call("notes", "")
    /\ returned' = notes(unit)
    /\ thrown' = ""
    /\ UNCHANGED <<unit, ownerVars, parserVars>>

\* unit.setNotes(newNotes)
SetNotes ==
    \E newNotes \in NoteLists :
        LET result == setNotes(unit, newNotes)
        IN /\ lastOp' = Call("setNotes", newNotes)
           /\ unit' = result.unit
           /\ returned' = ""
           /\ thrown' = result.error
           /\ UNCHANGED <<ownerVars, parserVars>>

\* unit.sourceReferences()
SourceReferences ==
    /\ lastOp' = Call("sourceReferences", "")
    /\ returned' = sourceReferences(unit)
    /\ thrown' = ""
    /\ UNCHANGED <<unit, ownerVars, parserVars>>

\* unit.setSourceReferences(sourceRefs)
SetSourceReferences ==
    \E sourceRefs \in SourceRefLists :
        /\ lastOp' = Call("setSourceReferences", sourceRefs)
        /\ unit' = setSourceReferences(unit, sourceRefs)
        /\ returned' = ""
        /\ thrown' = ""
        /\ UNCHANGED <<ownerVars, parserVars>>

\* unit.targetContent()
TargetContent ==
    /\ lastOp' = Call("targetContent", "")
    /\ returned' = targetContent(unit)
    /\ thrown' = ""
    /\ UNCHANGED <<unit, ownerVars, parserVars>>

\* unit.sourceContent()
SourceContent ==
    /\ lastOp' = Call("sourceContent", "")
    /\ returned' = sourceContent(unit)
    /\ thrown' = ""
    /\ UNCHANGED <<unit, ownerVars, parserVars>>

\* unit.setSourceContent(newContent)
SetSourceContent ==
    \E newContent \in SourceUpdates :
        LET result == setSourceContent(unit, newContent)
        IN /\ lastOp' = Call("setSourceContent", newContent)
           /\ unit' = result.unit
           /\ returned' = ""
           /\ thrown' = result.error
           /\ UNCHANGED <<ownerVars, parserVars>>

\* setSourceContent(newContent) on a second unit object that wraps the same
\* element: the write lands in the element both share
OtherSetSourceContent ==
    \E newContent \in SourceUpdates :
        LET result == setSourceContent(unit, newContent)
        IN /\ lastOp' = Call("other.setSourceContent", newContent)
           /\ unit' = result.unit
           /\ returned' = ""
           /\ thrown' = result.error
           /\ UNCHANGED <<ownerVars, parserVars>>

\* translate(translation) on a second unit object that wraps the same element
OtherTranslate ==
    \E translation \in Translations :
        LET result == translateNative(unit, translation)
        IN /\ lastOp' = Call("other.translate", translation)
           /\ unit' = result.unit
           /\ returned' = ""
           /\ thrown' = result.error
           /\ UNCHANGED <<ownerVars, parserVars>>

\* unit.sourceContentNormalized()
SourceContentNormalized ==
    /\ lastOp' = Call("sourceContentNormalized", "")
    /\ returned' = sourceContentNormalized(unit)
    /\ thrown' = ""
    /\ UNCHANGED <<unit, ownerVars, parserVars>>

\* unit.targetContentNormalized()
TargetContentNormalized ==
    /\ lastOp' = Call("targetContentNormalized", "")
    /\ returned' = targetContentNormalized(unit)
    /\ thrown' = ""
    /\ UNCHANGED <<unit, ownerVars, parserVars>>

\* unit.useSourceAsTarget(isDefaultLang, copyContent)
UseSourceAsTarget ==
    \E isDefaultLang \in BOOLEAN, copyContent \in BOOLEAN :
        LET result == useSourceAsTarget(unit, translationMessagesFile,
                                        isDefaultLang, copyContent)
        IN /\ lastOp' = Call("useSourceAsTarget",
                             [isDefaultLang |-> isDefaultLang, copyContent |-> copyContent])
           /\ unit' = result.unit
           /\ returned' = ""
           /\ thrown' = result.error
           /\ UNCHANGED <<ownerVars, parserVars>>

\* unit.cloneWithSourceAsTarget(isDefaultLang, copyContent, targetFile)
CloneWithSourceAsTarget ==
    \E isDefaultLang \in BOOLEAN, copyContent \in BOOLEAN, targetFile \in Files :
        LET result == cloneWithSourceAsTarget(unit, id, isDefaultLang, copyContent, targetFile)
        IN /\ lastOp' = Call("cloneWithSourceAsTarget",
                             [isDefaultLang |-> isDefaultLang, copyContent |-> copyContent])
           /\ unit' = result.receiver
           /\ clone' = result.clone
           /\ returned' = ""
           /\ thrown' = result.error
           /\ UNCHANGED <<id, translationMessagesFile, parserVars>>

\* a write through the clone: it lands in the element the clone wraps
WriteClone(name, arg, written) ==
    /\ clone.exists
    /\ lastOp' = Call(name, arg)
    /\ clone' = [clone EXCEPT !.element = written]
    /\ unit' = IF clone.isReceiversElement THEN written ELSE unit
    /\ returned' = ""
    /\ thrown' = ""
    /\ UNCHANGED <<id, translationMessagesFile, parserVars>>

\* clone.translate(translation)
CloneTranslate ==
    /\ clone.exists
    /\ \E translation \in Translations :
          WriteClone("clone.translate", translation,
                     translateNative(clone.element, translation).unit)

\* clone.setDescription(description)
CloneSetDescription ==
    /\ clone.exists
    /\ \E newDescription \in Descriptions :
          WriteClone("clone.setDescription", newDescription,
                     setDescription(clone.element, newDescription))

---------------------------------------------------------------------------
(* Specifications *)

ParserIdle ==
    /\ pc = <<>>
    /\ normalizedString = ""
    /\ xmlContent = <<>>
    /\ parsedMessage = <<>>
    /\ nativeString = <<>>
    /\ displayString = ""
    /\ errorMessage = ""

UnitFresh ==
    /\ lastOp = Call("new", "")
    /\ returned = ""
    /\ thrown = ""

InitParser ==
    /\ ParserIdle
    /\ unit = Fragment("A", FALSE, TRUE, "Hello", FALSE, "", null)
    /\ UnitFresh
    /\ id = "greeting"
    /\ translationMessagesFile = DefaultFile
    /\ clone = NoClone

NextParser ==
    \/ ParseDisplayString
    \/ AsNativeString
    \/ ParsedMessageFromNativeString
    \/ ParsedMessageFromFragment
    \/ AsDisplayString

SpecParser == InitParser /\ [][NextParser]_vars

\* the test suite's inputs, with calls repeated on the same input
NextParserCalls ==
    \/ ParseTestDisplayString
    \/ ParseTestFragment
    \/ AsNativeString
    \/ ParsedMessageFromNativeString
    \/ AsDisplayString
    \/ ParsedMessageForAgain
    \/ ParsedMessageFromXMLAgain
    \/ AsNativeStringAgain

SpecParserCalls == InitParser /\ [][NextParserCalls]_vars

Init ==
    /\ ParserIdle
    /\ unit \in Fragments
    /\ UnitFresh
    /\ id = "greeting"
    /\ translationMessagesFile = DefaultFile
    /\ clone = NoClone

Next ==
    \/ TargetState
    \/ SetTargetState
    \/ Translate

Spec == Init /\ [][Next]_vars

\* a unit of a file with or without annotations
InitAnnotations ==
    /\ ParserIdle
    /\ unit \in AnnotatedFragments
    /\ UnitFresh
    /\ id = "greeting"
    /\ translationMessagesFile = DefaultFile
    /\ clone = NoClone

\* description, meaning and notes of a unit
NextNotes ==
    \/ Description
    \/ SetDescription
    \/ Meaning
    \/ SetMeaning
    \/ Notes
    \/ SetNotes

SpecNotes == InitAnnotations /\ [][NextNotes]_vars

\* source references of a unit, next to the annotations that share their
\* storage in XLIFF 2.0
NextSourceReferences ==
    \/ SourceReferences
    \/ SetSourceReferences
    \/ Notes
    \/ Description
    \/ SetDescription

SpecSourceReferences == InitAnnotations /\ [][NextSourceReferences]_vars

\* every setter of the annotations and the source references
NextAnnotations ==
    \/ SetDescription
    \/ SetMeaning
    \/ SetNotes
    \/ SetSourceReferences

SpecAnnotations == InitAnnotations /\ [][NextAnnotations]_vars

\* a unit of a file whose source is used as target, in place or in a clone
InitCopy ==
    /\ ParserIdle
    /\ unit \in CopyFragments
    /\ UnitFresh
    /\ id = "greeting"
    /\ translationMessagesFile \in Files
    /\ clone = NoClone

NextCopy ==
    \/ UseSourceAsTarget
    \/ CloneWithSourceAsTarget
    \/ CloneTranslate
    \/ CloneSetDescription
    \/ TargetState
    \/ TargetContent

SpecCopy == InitCopy /\ [][NextCopy]_vars

\* a unit whose content is read and written through its accessors
InitContent ==
    /\ ParserIdle
    /\ unit \in ContentFragments
    /\ UnitFresh
    /\ id = "greeting"
    /\ translationMessagesFile \in Files
    /\ clone = NoClone

NextContent ==
    \/ SourceContent
    \/ SetSourceContent
    \/ OtherSetSourceContent
    \/ SourceContentNormalized
    \/ TargetContent
    \/ TargetContentNormalized
    \/ Translate
    \/ OtherTranslate
    \/ UseSourceAsTarget
    \/ TargetState
    \/ Description
    \/ Meaning
    \/ Notes
    \/ SourceReferences

SpecContent == InitContent /\ [][NextContent]_vars

---------------------------------------------------------------------------
(* Properties of the message parser *)

\* the calls of checkToXmlAndBack, in order
ToXmlAndBack ==
    <<"parsedMessageFor", "asNativeString", "parsedMessageFromXML", "asDisplayString">>

\* pc begins with the calls in prefix
Began(prefix) == Len(pc) >= Len(prefix) /\ SubSeq(pc, 1, Len(prefix)) = prefix

\* the last parse was parsedMessageFromXML on a fragment of a test case
ParsedFragment == Began(<<"parsedMessageFromXML">>)

Contains(s, pat) == IndexOf(s, pat, 1) > 0

\* the parts of a message that are of the given type
RECURSIVE PartsOfType(_, _)
PartsOfType(parts, type) ==
    IF parts = <<>> THEN <<>>
    ELSE (IF Head(parts).type = type THEN <<Head(parts)>> ELSE <<>>)
             \o PartsOfType(Tail(parts), type)

\* C1: a valid display string that is parsed, serialized with
\* asNativeString, parsed again from that native form and rendered with
\* asDisplayString comes back unchanged; the second parse never throws.
RoundTripLaw ==
    Began(<<"parsedMessageFor", "asNativeString", "parsedMessageFromXML">>)
        => /\ pc[Len(pc)] # "throw"
           /\ pc = ToXmlAndBack => displayString = normalizedString

\* C1 witness: the nested tags with a placeholder inside went round
RoundTripLawWitness ==
    /\ pc = ToXmlAndBack
    /\ normalizedString = "<b><i><strange>Placeholder {{0}}</strange></i></b>"
    /\ Len(parsedMessage) = 8

\* a <ph> element that is a tag-start / tag-end marker, told by its name
IsStartMarker(n) == n.node = "ph" /\ StartsWith(n.name, "START_")
IsEndMarker(n) == n.node = "ph" /\ StartsWith(n.name, "CLOSE_")

\* the tag a tag marker stands for, read from its <ex> payload: <name> or </name>
MarkerTag(n) ==
    IF IsEndMarker(n) THEN SubSeq(n.data, 3, Len(n.data) - 1)
    ELSE SubSeq(n.data, 2, Len(n.data) - 1)

\* the tags open after the nodes, every end marker closing one
RECURSIVE OpenTagsAfter(_)
OpenTagsAfter(nodes) ==
    IF nodes = <<>> THEN <<>>
    ELSE LET n == nodes[Len(nodes)]
             open == OpenTagsAfter(SubSeq(nodes, 1, Len(nodes) - 1))
         IN IF IsStartMarker(n) THEN Append(open, MarkerTag(n))
            ELSE IF IsEndMarker(n) /\ open # <<>> THEN SubSeq(open, 1, Len(open) - 1)
            ELSE open

\* node k is an end marker that closes nothing or the wrong tag
UnexpectedCloseAt(nodes, k) ==
    /\ IsEndMarker(nodes[k])
    /\ LET open == OpenTagsAfter(SubSeq(nodes, 1, k - 1))
       IN open = <<>> \/ open[Len(open)] # MarkerTag(nodes[k])

UnexpectedCloses(nodes) == { k \in 1..Len(nodes) : UnexpectedCloseAt(nodes, k) }

FirstUnexpectedClose(nodes) ==
    CHOOSE k \in UnexpectedCloses(nodes) : \A j \in UnexpectedCloses(nodes) : k <= j

\* C2: parsing a native fragment in which an end marker closes a tag that is
\* not open, or not the one opened last, throws "unexpected close tag <name>"
\* and returns no message.
NestingEnforcement ==
    (ParsedFragment /\ UnexpectedCloses(xmlContent) # {})
        => /\ pc = <<"parsedMessageFromXML", "throw">>
           /\ parsedMessage = <<>>
           /\ Contains(errorMessage,
                       "unexpected close tag "
                           \o MarkerTag(xmlContent[FirstUnexpectedClose(xmlContent)]))

\* C2 witness: <b><strange>FALSCH</b> of the test suite was rejected, and so
\* was a fragment that closes a tag with none open
NestingEnforcementWitness ==
    /\ ParsedFragment
    /\ \/ /\ Len(xmlContent) = 5
          /\ xmlContent[5].name = "CLOSE_BOLD_TEXT"
          /\ xmlContent[3].name = "START_TAG_STRANGE"
          /\ errorMessage = "unexpected close tag b"
       \/ /\ Len(xmlContent) = 1
          /\ xmlContent[1].name = "CLOSE_TAG_STRANGE"
          /\ errorMessage = "unexpected close tag strange"

\* C3: parsing a native fragment whose end markers all match but which leaves
\* a tag open at its end throws and returns no message.
UnterminatedTagIsError ==
    (ParsedFragment /\ UnexpectedCloses(xmlContent) = {}
                    /\ OpenTagsAfter(xmlContent) # <<>>)
        => /\ pc = <<"parsedMessageFromXML", "throw">>
           /\ parsedMessage = <<>>
           /\ errorMessage # ""

\* C3 witness: <b>some text, never closed, was rejected
UnterminatedTagIsErrorWitness ==
    /\ pc = <<"parsedMessageFromXML", "throw">>
    /\ Len(xmlContent) = 2
    /\ xmlContent[1].name = "START_BOLD_TEXT"
    /\ xmlContent[2].node = "#text"

\* native name of a part's kind, without number
KindName(part) ==
    CASE part.type = "PLACEHOLDER" -> "INTERPOLATION"
      [] part.type = "ICU_MESSAGE_REF" -> "ICU"
      [] part.type = "START_TAG" -> "START_" \o symbolicNameFor(part.value)
      [] part.type = "END_TAG" -> "CLOSE_" \o symbolicNameFor(part.value)
      [] part.type = "EMPTY_TAG" -> symbolicNameFor(part.value)
      [] OTHER -> ""

\* how many parts of the same kind precede part k
OccurrencesBefore(parts, k) ==
    Occurrences(SubSeq(parts, 1, k - 1), parts[k].type, parts[k].value)

Serialized == pc = <<"parsedMessageFor", "asNativeString">>

\* C4 as stated: the occurrences of one marker kind are named KIND, KIND_1,
\* ..., KIND_{k-1} in order of appearance, whatever indices the parts hold.
NumberingDeterminism ==
    Serialized =>
        \A k \in 1..Len(parsedMessage) :
            parsedMessage[k].type # "TEXT" =>
                nativeString[k].name
                    = NumberedName(KindName(parsedMessage[k]),
                                   OccurrencesBefore(parsedMessage, k))

\* a part whose number in the native name is its occurrence number: a tag,
\* or an interpolation or ICU reference whose index counts the earlier ones
NumberedInOrder(parts, k) ==
    \/ parts[k].type \in {"START_TAG", "END_TAG", "EMPTY_TAG"}
    \/ /\ parts[k].type \in {"PLACEHOLDER", "ICU_MESSAGE_REF"}
       /\ parts[k].index = OccurrencesBefore(parts, k)

\* C4 amended: the occurrences of one marker kind are named KIND, KIND_1,
\* ..., KIND_{k-1} in order of appearance for tag markers, and for the
\* interpolations and ICU references whose stored index is their occurrence
\* number (the name is taken from the stored index, not from a counter).
NumberingByOccurrenceWhenIndexedInOrder ==
    Serialized =>
        \A k \in 1..Len(parsedMessage) :
            NumberedInOrder(parsedMessage, k) =>
                nativeString[k].name
                    = NumberedName(KindName(parsedMessage[k]),
                                   OccurrencesBefore(parsedMessage, k))

\* C4 witness: a message with two interpolations indexed in order of
\* appearance and a tag that occurs twice was serialized
NumberingWitness ==
    /\ Serialized
    /\ \E j, k \in 1..Len(parsedMessage) :
          /\ j < k
          /\ parsedMessage[j] = PlaceholderPart(0)
          /\ parsedMessage[k] = PlaceholderPart(1)
          /\ nativeString[k].name = "INTERPOLATION_1"
    /\ \E j, k \in 1..Len(parsedMessage) :
          /\ j < k
          /\ parsedMessage[j] = EmptyTagPart("br")
          /\ parsedMessage[k] = EmptyTagPart("br")
          /\ nativeString[k].name = "LINE_BREAK_1"

\* C5: a serialized interpolation is named after its index, INTERPOLATION
\* for index 0 and INTERPOLATION_n for index n > 0, wherever it stands;
\* "{{1}}: a placeholder: {{0}}" gives INTERPOLATION_1 first, INTERPOLATION
\* second.
InterpolationNamedByIndex ==
    Serialized =>
        /\ \A k \in 1..Len(parsedMessage) :
              parsedMessage[k].type = "PLACEHOLDER" =>
                  /\ nativeString[k].node = "ph"
                  /\ nativeString[k].name
                         = IF parsedMessage[k].index = 0 THEN "INTERPOLATION"
                           ELSE "INTERPOLATION_" \o ToString(parsedMessage[k].index)
        /\ normalizedString = "{{1}}: a placeholder: {{0}}" =>
              nativeString = << PhElement("INTERPOLATION_1", "INTERPOLATION_1"),
                                TextNode(": a placeholder: "),
                                PhElement("INTERPOLATION", "INTERPOLATION") >>

\* C5 witness: the test's message with {{1}} before {{0}} was serialized
InterpolationNamedByIndexWitness ==
    /\ Serialized
    /\ normalizedString = "{{1}}: a placeholder: {{0}}"
    /\ Len(nativeString) = 3

IsICUNode(n) == n.node = "ph" /\ BaseName(n.name) = "ICU"
IsInterpolationNode(n) == n.node = "ph" /\ BaseName(n.name) = "INTERPOLATION"

\* C6: a native fragment, parsed without source message, whose ICU markers
\* are named ICU, ICU_1, ..., ICU_{k-1} in document order yields the ICU
\* references 0, 1, ..., k-1 in that order; one whose only interpolation
\* marker is named INTERPOLATION yields placeholder 0.
MarkersParsedInOrder ==
    pc = <<"parsedMessageFromXML">> =>
        LET icus == SelectSeq(xmlContent, IsICUNode)
            interpolations == SelectSeq(xmlContent, IsInterpolationNode)
        IN /\ (\A j \in 1..Len(icus) : icus[j].name = NumberedName("ICU", j - 1))
                 => PartsOfType(parsedMessage, "ICU_MESSAGE_REF")
                        = [j \in 1..Len(icus) |-> ICUMessageRefPart(j - 1)]
           /\ (Len(interpolations) = 1 /\ interpolations[1].name = "INTERPOLATION")
                 => PartsOfType(parsedMessage, "PLACEHOLDER") = <<PlaceholderPart(0)>>

\* C6 witness: the test's fragment with ICU and ICU_1 was parsed and shown
MarkersParsedInOrderWitness ==
    /\ pc = <<"parsedMessageFromXML", "asDisplayString">>
    /\ Len(SelectSeq(xmlContent, IsICUNode)) = 2
    /\ displayString = "first: <ICU-Message-Ref_0/>, second <ICU-Message-Ref_1/>"

---------------------------------------------------------------------------
(* Properties of the translation unit's state *)

AbstractStates == {STATE_NEW, STATE_TRANSLATED, STATE_FINAL}

\* C7: the native-to-abstract mapping is total: reading the state of a unit
\* never throws and gives NEW, TRANSLATED or FINAL for every stored token,
\* absent and unrecognized ones included, and NEW for every token outside
\* the dialect's recognized set.
NativeStateMappingTotal ==
    lastOp.name = "targetState" =>
        /\ thrown = ""
        /\ returned \in AbstractStates
        /\ nativeTargetState(unit) \notin RecognizedTokens(unit.dialect)
              => returned = STATE_NEW

\* C7 witness: the state was read from a unit without state attribute, from
\* an XLIFF 2.0 unit holding an XLIFF 1.2 token and from an XLIFF 1.2 unit
\* holding a recognized token
NativeStateMappingTotalWitness ==
    /\ lastOp.name = "targetState"
    /\ \/ nativeTargetState(unit) = null /\ returned = STATE_NEW
       \/ unit.dialect = "B" /\ unit.state = "signed-off" /\ returned = STATE_NEW
       \/ unit.dialect = "A" /\ unit.state = "needs-l10n" /\ returned = STATE_TRANSLATED

\* C8: setting a state outside NEW, TRANSLATED, FINAL throws and leaves the
\* fragment, its state token included, as it was.
InvalidStateRejected ==
    [][(lastOp'.name = "setTargetState" /\ lastOp'.arg \notin AbstractStates)
          => (thrown' # "" /\ unit' = unit)]_vars

\* C8 witness: "reviewed" was rejected on a unit whose segment holds a token
InvalidStateRejectedWitness ==
    /\ lastOp = Call("setTargetState", "reviewed")
    /\ thrown = "unknown state reviewed"
    /\ unit.dialect = "B"
    /\ unit.hasSegment
    /\ unit.state = "final"

\* the token the claim names for each state
NamedToken(dialect, state) ==
    CASE state = STATE_NEW -> IF dialect = "A" THEN "new" ELSE "initial"
      [] state = STATE_TRANSLATED -> "translated"
      [] state = STATE_FINAL -> "final"

\* C9: within a dialect the forward mapping sends NEW, TRANSLATED, FINAL to
\* three distinct tokens (new/translated/final in A, initial/translated/final
\* in B) and the reverse mapping is its left inverse; so the state read after
\* a successful setTargetState(s) on a unit with a state element is s.
StateMappingInjectiveWithLeftInverse ==
    /\ \A s \in AbstractStates :
          LET native == mapStateToNativeState(unit.dialect, s)
          IN /\ ~native.threw
             /\ native.value = NamedToken(unit.dialect, s)
             /\ mapNativeStateToState(unit.dialect, native.value) = s
             /\ \A s2 \in AbstractStates \ {s} :
                    mapStateToNativeState(unit.dialect, s2).value # native.value
    /\ (lastOp.name = "setTargetState" /\ thrown = "" /\ HasStateElement(unit))
          => /\ unit.state = NamedToken(unit.dialect, lastOp.arg)
             /\ targetState(unit) = lastOp.arg

\* C9 witness: NEW was written to an XLIFF 2.0 segment and FINAL to an
\* XLIFF 1.2 target
StateMappingInjectiveWitness ==
    \/ lastOp = Call("setTargetState", STATE_NEW) /\ unit.dialect = "B"
          /\ unit.state = "initial"
    \/ lastOp = Call("setTargetState", STATE_FINAL) /\ unit.dialect = "A"
          /\ unit.state = "final"

\* C10 as stated: after translate(c) has returned, the unit's state is
\* TRANSLATED, whatever it was before and whether or not the unit had a
\* target (A) or a segment (B).
TranslateSetsTranslated ==
    (lastOp.name = "translate" /\ thrown = "") => targetState(unit) = STATE_TRANSLATED

---------------------------------------------------------------------------
(* Properties of the translation unit's content and annotations *)

\* C11: translate(c) with a native string c on a unit that has a source
\* element returns normally and leaves a target element whose content,
\* as targetContent() returns it, is exactly c, whether the target existed
\* before (its content is replaced) or not (it is created).
TranslateWritesTarget ==
    [][(lastOp'.name = "translate" /\ unit.hasSource)
          => /\ thrown' = ""
             /\ unit'.hasTarget
             /\ targetContent(unit') = lastOp'.arg]_vars

\* C11 witness: "Bonjour" was written to an XLIFF 2.0 unit and to an
\* XLIFF 1.2 unit; no unit of a file holds that content beforehand
TranslateWritesTargetWitness ==
    /\ lastOp.name = "translate"
    /\ lastOp.arg = "Bonjour"
    /\ unit.hasSource
    /\ targetContent(unit) = "Bonjour"

\* C12: setNotes(L) with a list L in which no origin is description or
\* meaning returns normally, and notes() then returns exactly L: the same
\* entries in the same order, none of the earlier notes left, in both
\* dialects and whatever annotations the unit held before.
SetNotesReplaces ==
    (lastOp.name = "setNotes" /\ ~Collides(lastOp.arg))
        => /\ thrown = ""
           /\ notes(unit) = lastOp.arg

\* C12 witness: two notes were set on a unit that still holds a description
\* (so it held annotations before), and on a unit of each dialect
SetNotesReplacesWitness ==
    /\ lastOp.name = "setNotes"
    /\ thrown = ""
    /\ lastOp.arg = << INote("reviewer", "check wording"),
                       INote("translator", "check wording") >>
    /\ description(unit) = "Greeting"
    /\ unit.dialect = "B"

\* C13: setNotes(L) with an entry of origin description or meaning, at any
\* position of L, throws and writes nothing: notes(), description() and
\* meaning() return afterwards what they returned before.
CollidingNotesRejected ==
    [][(lastOp'.name = "setNotes" /\ Collides(lastOp'.arg))
          => /\ thrown' # ""
             /\ notes(unit') = notes(unit)
             /\ description(unit') = description(unit)
             /\ meaning(unit') = meaning(unit)]_vars

\* C13 witness: a list whose second entry collides was rejected by a unit
\* that holds a note
CollidingNotesRejectedWitness ==
    /\ lastOp.name = "setNotes"
    /\ thrown # ""
    /\ Len(lastOp.arg) = 2
    /\ lastOp.arg[1].from = "translator"
    /\ lastOp.arg[2].from = "meaning"
    /\ Len(notes(unit)) > 0

\* C14: after setDescription(d) with non-empty d, description() returns d,
\* whether the note was absent or held another text; after setDescription
\* with an empty value no description note is left and description()
\* returns null.  The same for setMeaning and meaning().  Both dialects.
ReservedAnnotationWritten ==
    /\ lastOp.name = "setDescription" =>
          IF lastOp.arg # ""
          THEN description(unit) = lastOp.arg
          ELSE /\ description(unit) = null
               /\ \A i \in 1..Len(unit.noteElements) :
                      unit.noteElements[i].attribute # "description"
    /\ lastOp.name = "setMeaning" =>
          IF lastOp.arg # ""
          THEN meaning(unit) = lastOp.arg
          ELSE /\ meaning(unit) = null
               /\ \A i \in 1..Len(unit.noteElements) :
                      unit.noteElements[i].attribute # "meaning"

\* C14 witness: a description other than the extractor's was written, and a
\* meaning was cleared on a unit that keeps its description
ReservedAnnotationWrittenWitness ==
    \/ /\ lastOp.name = "setDescription"
       /\ lastOp.arg = "Farewell"
       /\ description(unit) = "Farewell"
       /\ meaning(unit) = "salutation"
    \/ /\ lastOp.name = "setMeaning"
       /\ lastOp.arg = ""
       /\ meaning(unit) = null
       /\ description(unit) = "Greeting"

\* C15: after setSourceReferences(R), sourceReferences() returns exactly R:
\* the same file and line pairs in the same order and none of the earlier
\* references, in both dialects, also for a file name that contains ':'.
SourceReferencesRoundTrip ==
    lastOp.name = "setSourceReferences" => sourceReferences(unit) = lastOp.arg

\* C15 witness: two references, the first in a file whose name contains a
\* colon, were set on an XLIFF 2.0 unit
SourceReferencesRoundTripWitness ==
    /\ lastOp.name = "setSourceReferences"
    /\ unit.dialect = "B"
    /\ lastOp.arg = << SourceRef("c:/src/app.ts", 12), SourceRef("app.component.ts", 7) >>
    /\ Len(sourceReferences(unit)) = 2

\* C16 as stated: after setSourceReferences([]) an XLIFF 2.0 unit has no
\* <notes> element without children, whether or not it had a <notes> element
\* before, and an XLIFF 1.2 unit has no location context-group.
NoEmptyContainerAfterClearing ==
    (lastOp.name = "setSourceReferences" /\ lastOp.arg = <<>>)
        => /\ ~(unit.hasNotes /\ unit.noteElements = <<>>)
           /\ SelectSeq(unit.contextGroups, IsLocation) = <<>>

---------------------------------------------------------------------------
(* Properties of source-as-target and clone *)

\* the operations that make a clone or write through it
CloneOperations == {"cloneWithSourceAsTarget", "clone.translate", "clone.setDescription"}

\* what a caller can read from a unit's element
Observed(u) ==
    [sourceContent |-> sourceContent(u), targetContent |-> targetContent(u),
     hasTarget |-> u.hasTarget, targetState |-> targetState(u),
     description |-> description(u), meaning |-> meaning(u),
     notes |-> notes(u), sourceReferences |-> sourceReferences(u)]

ICUSourceCopiedVerbatim ==
    (/\ lastOp.name = "useSourceAsTarget"
     /\ thrown = ""
     /\ isICUMessage(sourceContent(unit)))
        => targetContent(unit) = sourceContent(unit)

SourceAsTargetSetsState ==
    (lastOp.name = "useSourceAsTarget" /\ thrown = "")
        => targetState(unit) = IF lastOp.arg.isDefaultLang THEN STATE_FINAL ELSE STATE_NEW

---------------------------------------------------------------------------
(* Properties of the content accessors *)

\* the message a parser gives for content without markup
TextMessage(content) == Parsed(IF content = "" THEN <<>> ELSE << TextPart(content) >>)

ReadOperations ==
    {"sourceContent", "sourceContentNormalized", "targetContent", "targetContentNormalized",
     "targetState", "description", "meaning", "notes", "sourceReferences"}

\* what every read gives when the element it reads is absent, apart from the
\* state
AbsentElementsReadAsNothing ==
    /\ lastOp.name \in ReadOperations => thrown = ""
    /\ (lastOp.name = "sourceContentNormalized" /\ ~unit.hasSource) => returned = null
    /\ (lastOp.name = "targetContent" /\ ~unit.hasTarget) => returned \in {null, ""}
    /\ (lastOp.name = "targetContentNormalized" /\ ~unit.hasTarget) =>
           returned = Parsed(<<>>)
    /\ (lastOp.name \in {"description", "meaning"} /\ unit.noteElements = <<>>) =>
           returned = null
    /\ (/\ lastOp.name \in {"notes", "sourceReferences"}
        /\ unit.noteElements = <<>>
        /\ unit.contextGroups = <<>>) => returned = <<>>

\* C22: reads on a unit that lacks an optional element never raise: no
\* source gives a null normalized source, no target gives a null or empty
\* target content and normalized target and the state NEW, no note or
\* location element gives a null description and meaning and empty lists of
\* notes and source references.
AbsentElementsNeverRaise ==
    /\ AbsentElementsReadAsNothing
    /\ (lastOp.name = "targetState" /\ ~unit.hasTarget) => returned = STATE_NEW

\* C22, amended: as above, but the state reads as NEW when the element that
\* carries it is absent, which is <target> in XLIFF 1.2 and <segment> in
\* XLIFF 2.0; an XLIFF 2.0 unit without target reads the state its segment
\* carries.
AbsentElementsNeverRaiseStateOnSegment ==
    /\ AbsentElementsReadAsNothing
    /\ (lastOp.name = "targetState" /\ ~HasStateElement(unit)) => returned = STATE_NEW
    /\ (lastOp.name = "targetState" /\ HasStateElement(unit)) =>
           returned = mapNativeStateToState(unit.dialect, unit.state)

\* a unit with neither source nor target nor annotations has been read
AbsentElementsWitness ==
    /\ lastOp.name = "description"
    /\ ~unit.hasSource /\ ~unit.hasTarget /\ ~HasStateElement(unit)
    /\ unit.noteElements = <<>>
    /\ returned = null

---------------------------------------------------------------------------
(* Further properties of the message parser *)

\* the display grammar, part by part
RECURSIVE Rendering(_)
Rendering(parts) ==
    IF parts = <<>> THEN ""
    ELSE LET part == Head(parts)
             first == IF part.type = "TEXT" THEN part.value
                      ELSE IF part.type = "PLACEHOLDER"
                           THEN "{{" \o ToString(part.index) \o "}}"
                      ELSE IF part.type = "START_TAG" THEN "<" \o part.value \o ">"
                      ELSE IF part.type = "END_TAG" THEN "</" \o part.value \o ">"
                      ELSE IF part.type = "EMPTY_TAG" THEN "<" \o part.value \o ">"
                      ELSE "<ICU-Message-Ref_" \o ToString(part.index) \o "/>"
         IN first \o Rendering(Tail(parts))

\* C23: display rendering is the inverse of display parsing.  A valid display
\* string that is parsed and rendered with asDisplayString comes back
\* unchanged, each part rendered as the display grammar says; and the native
\* form of a message that is one text is that text.
DisplayRenderingInvertsParsing ==
    /\ pc = <<"parsedMessageFor", "asDisplayString">> =>
           /\ displayString = normalizedString
           /\ displayString = Rendering(parsedMessage)
    /\ (/\ pc = <<"parsedMessageFor", "asNativeString">>
        /\ normalizedString # ""
        /\ \A k \in 1..Len(parsedMessage) : parsedMessage[k].type = "TEXT") =>
           nativeString = << TextNode(normalizedString) >>

\* the line break of the test suite came back as it was written
DisplayRenderingWitness ==
    /\ pc = <<"parsedMessageFor", "asDisplayString">>
    /\ normalizedString = "one line<br>second line"
    /\ displayString = "one line<br>second line"
    /\ Len(parsedMessage) = 3

\* the symbolic names the claim lists, and the fallback for any other tag
SymbolicName(tagName) ==
    IF tagName = "b" THEN "BOLD_TEXT"
    ELSE IF tagName = "i" THEN "ITALIC_TEXT"
    ELSE IF tagName = "a" THEN "LINK"
    ELSE IF tagName = "br" THEN "LINE_BREAK"
    ELSE "TAG_" \o toUpperCase(tagName)

\* C24: serialization names tag markers through the fixed table with the
\* fallback for unknown tags.  In the native form of a parsed display string
\* the marker of a start tag <t> is named START_<sym(t)>, of an end tag
\* CLOSE_<sym(t)> and of an empty tag <sym(t)>, followed by _<n> for a
\* repeated marker; its payload is the tag as written; and parsing the
\* native form gives the parts back with the original tag names.
TagMarkersNamedByTable ==
    /\ pc = <<"parsedMessageFor", "asNativeString">> =>
           \A k \in 1..Len(parsedMessage) :
               LET part == parsedMessage[k]
                   marker == nativeString[k]
                   sym == SymbolicName(part.value)
               IN /\ part.type = "START_TAG" =>
                         /\ marker.node = "ph"
                         /\ BaseName(marker.name) = "START_" \o sym
                         /\ marker.data = "<" \o part.value \o ">"
                  /\ part.type = "END_TAG" =>
                         /\ marker.node = "ph"
                         /\ BaseName(marker.name) = "CLOSE_" \o sym
                         /\ marker.data = "</" \o part.value \o ">"
                  /\ part.type = "EMPTY_TAG" =>
                         /\ marker.node = "ph"
                         /\ BaseName(marker.name) = sym
                         /\ marker.data = "<" \o part.value \o ">"
    /\ pc = <<"parsedMessageFor", "asNativeString", "parsedMessageFromXML">> =>
           /\ Len(parsedMessage) = Len(nativeString)
           /\ \A k \in 1..Len(parsedMessage) :
                  parsedMessage[k].type \in {"START_TAG", "END_TAG", "EMPTY_TAG"} =>
                      nativeString[k].data \in
                          { "<" \o parsedMessage[k].value \o ">",
                            "</" \o parsedMessage[k].value \o ">" }

\* the message with a known, a second known and an unknown tag was
\* serialized and parsed back
TagMarkersNamedByTableWitness ==
    /\ pc = <<"parsedMessageFor", "asNativeString", "parsedMessageFromXML">>
    /\ normalizedString = "<b><i><strange>Placeholder {{0}}</strange></i></b>"
    /\ nativeString[3].name = "START_TAG_STRANGE"
    /\ parsedMessage[3] = StartTagPart("strange")

\* the tags left open after the parts, read with a stack; Unmatched when an
\* end tag does not close the tag opened last
Unmatched == << "unmatched" >>

RECURSIVE OpenAfter(_, _)
OpenAfter(parts, open) ==
    IF parts = <<>> \/ open = Unmatched THEN open
    ELSE LET part == Head(parts)
         IN IF part.type = "START_TAG"
            THEN OpenAfter(Tail(parts), Append(open, part.value))
            ELSE IF part.type = "END_TAG"
            THEN IF open # <<>> /\ open[Len(open)] = part.value
                 THEN OpenAfter(Tail(parts), SubSeq(open, 1, Len(open) - 1))
                 ELSE Unmatched
            ELSE OpenAfter(Tail(parts), open)

\* the last call was a parse, from a display string or from native xml, and
\* it did not throw
ParseSucceeded ==
    /\ pc # <<>>
    /\ pc[Len(pc)] \in {"parsedMessageFor", "parsedMessageFromXML"}

\* C25: every message a successful parse returns, from native xml or from a
\* display string, is well nested: read with a stack, every end tag closes
\* the tag opened last and no tag is left open; empty tags neither open nor
\* close anything.
ParsedMessageWellNested ==
    ParseSucceeded =>
        /\ OpenAfter(parsedMessage, <<>>) = <<>>
        /\ OpenAfter(SelectSeq(parsedMessage, LAMBDA part : part.type # "EMPTY_TAG"), <<>>)
               = <<>>

\* the embedded tags of the test suite were parsed from native xml
ParsedMessageWellNestedWitness ==
    /\ pc = <<"parsedMessageFromXML">>
    /\ Len(xmlContent) = 6
    /\ parsedMessage = << TextPart("Diese Nachricht ist "), StartTagPart("b"),
                          StartTagPart("strange"), TextPart("SEHR WICHTIG"),
                          EndTagPart("strange"), EndTagPart("b") >>

\* the calls made so far
Called == { pc[k] : k \in 1..Len(pc) }

---------------------------------------------------------------------------
(* Properties of what an operation leaves alone *)

\* C27: setNotes leaves the source references untouched: in both dialects
\* sourceReferences() returns the same list after setNotes(L) as before it.
SetNotesKeepsSourceReferences ==
    [][ lastOp'.name = "setNotes" =>
            sourceReferences(unit') = sourceReferences(unit) ]_vars

\* C28: setSourceReferences leaves the annotations untouched: in both
\* dialects notes(), description() and meaning() return the same values after
\* setSourceReferences(R) as before it.
SetSourceReferencesKeepsAnnotations ==
    [][ lastOp'.name = "setSourceReferences" =>
            /\ notes(unit') = notes(unit)
            /\ description(unit') = description(unit)
            /\ meaning(unit') = meaning(unit) ]_vars

\* C29: setting the state of a unit whose state-carrying element is absent
\* (<target> in XLIFF 1.2, <segment> in XLIFF 2.0) does nothing: the
\* fragment is unchanged, nothing is thrown and the state still reads as
\* NEW; when the element exists, setting NEW, TRANSLATED or FINAL makes the
\* state read as that value.
SetStateWithoutElementIsNoOp ==
    [][ (/\ lastOp'.name = "setTargetState"
         /\ lastOp'.arg \in {STATE_NEW, STATE_TRANSLATED, STATE_FINAL}) =>
            IF HasStateElement(unit)
            THEN /\ thrown' = ""
                 /\ targetState(unit') = lastOp'.arg
            ELSE /\ thrown' = ""
                 /\ unit' = unit
                 /\ ~HasStateElement(unit')
                 /\ targetState(unit') = STATE_NEW ]_vars

\* FINAL was set on an XLIFF 2.0 unit without segment
SetStateWithoutElementWitness ==
    /\ lastOp = Call("setTargetState", STATE_FINAL)
    /\ unit.dialect = "B"
    /\ ~unit.hasSegment
    /\ unit.hasTarget
    /\ thrown = ""

\* C30: translate and useSourceAsTarget change only the target content and
\* the state: the fragment is the same apart from its <target> and its state
\* attribute, and sourceContent(), description(), meaning(), notes() and
\* sourceReferences() return what they returned before, in both dialects.
TranslationKeepsSourceAndAnnotations ==
    [][ lastOp'.name \in {"translate", "other.translate", "useSourceAsTarget"} =>
            /\ [unit' EXCEPT !.hasTarget = unit.hasTarget,
                             !.targetContent = unit.targetContent,
                             !.state = unit.state] = unit
            /\ sourceContent(unit') = sourceContent(unit)
            /\ description(unit') = description(unit)
            /\ meaning(unit') = meaning(unit)
            /\ notes(unit') = notes(unit)
            /\ sourceReferences(unit') = sourceReferences(unit) ]_vars

\* an XLIFF 2.0 unit with description, meaning and a source reference has
\* been translated
TranslationKeepsAnnotationsWitness ==
    /\ lastOp = Call("translate", "Bonjour")
    /\ thrown = ""
    /\ unit.dialect = "B"
    /\ unit.targetContent = "Bonjour"
    /\ description(unit) = "Greeting"
    /\ meaning(unit) = "salutation"
    /\ Len(sourceReferences(unit)) = 1

\* C31: setSourceContent(c) makes sourceContent() return c, creating the
\* <source> when it was absent, and changes nothing else: targetContent()
\* and the state are what they were, so a TRANSLATED or FINAL unit keeps its
\* state when its source text is replaced.
SetSourceContentWritesOnlySource ==
    [][ lastOp'.name \in {"setSourceContent", "other.setSourceContent"} =>
            /\ thrown' = ""
            /\ unit'.hasSource
            /\ sourceContent(unit') = lastOp'.arg
            /\ targetContent(unit') = targetContent(unit)
            /\ targetState(unit') = targetState(unit)
            /\ [unit' EXCEPT !.hasSource = unit.hasSource,
                             !.sourceContent = unit.sourceContent] = unit ]_vars

---------------------------------------------------------------------------
(* Invariants of the annotations *)

\* C32: in XLIFF 2.0, starting from a unit without an empty <notes>
\* container, no sequence of setDescription, setMeaning and setNotes calls
\* leaves an empty container: after every call the container exists if and
\* only if it holds at least one note.
NotesContainerNeverEmpty ==
    unit.dialect = "B" => (unit.hasNotes <=> unit.noteElements # <<>>)

\* the description was cleared and the container stayed for the meaning
NotesContainerNeverEmptyWitness ==
    /\ lastOp = Call("setDescription", "")
    /\ unit.dialect = "B"
    /\ unit.hasNotes
    /\ unit.noteElements = << NoteElement("meaning", "salutation") >>

\* how many <note> elements of the unit carry the attribute value
NotesWith(u, attrValue) ==
    Cardinality({ k \in 1..Len(u.noteElements) : u.noteElements[k].attribute = attrValue })

\* C33: starting from a unit with at most one description and at most one
\* meaning annotation, after any sequence of setDescription, setMeaning,
\* setNotes and setSourceReferences calls, failed setNotes calls included,
\* the unit holds at most one description and at most one meaning
\* annotation, in both dialects.
AtMostOneReservedAnnotation ==
    /\ NotesWith(unit, "description") <= 1
    /\ NotesWith(unit, "meaning") <= 1

\* a setNotes with a description among the notes failed on a unit that has
\* a description, a meaning and source references
AtMostOneReservedAnnotationWitness ==
    /\ lastOp.name = "setNotes"
    /\ thrown # ""
    /\ \E k \in 1..Len(lastOp.arg) : lastOp.arg[k].from = "description"
    /\ NotesWith(unit, "description") = 1
    /\ NotesWith(unit, "meaning") = 1
    /\ Len(sourceReferences(unit)) = 2

===========================================================================
